---- MODULE Spec2Model ----
(***************************************************************************)
(* CoreSitesProvider (src/unnamed/part_007): the sites registry, the       *)
(* registry of site schemas and their migration to the per-site databases. *)
(*                                                                         *)
(* Every action is one run of synchronous code between two suspension      *)
(* points (an await, or a promise reaction): the scheduling is the single  *)
(* cooperative task model of the JavaScript event loop.                    *)
(***************************************************************************)
EXTENDS Integers, Sequences, FiniteSets, TLC

\* ---------------------------------------------------------------- bounds
MaxGet == 2          \* getSite calls issued by code outside the provider
MaxNew == 1          \* newSite calls
MaxReg == 2          \* registerSiteSchema calls after construction
MaxVersion == 2      \* highest version a feature registers its schema at
MaxFail == 1         \* store operations or migrate callbacks that reject
MaxInFlight == 2     \* calls from outside whose promise is pending at one time
MaxCalls == 2        \* calls from outside in one run
MaxCallsNoFail == 3  \* calls from outside in one run in which nothing rejects
MaxLoad == 1         \* loadSite calls
MaxCallsSession == 3 \* calls from outside in one run with deleteSite, loadSite and logout
MaxRestore == 2      \* restoreSession calls
MaxCallsUrl == 3     \* calls from outside in one run with getSiteIdsFromUrl
MaxTours == 3        \* user tours shown in one run
MaxDismiss == 3      \* dismiss calls of the user tours in one run
MaxKey == 2          \* primary keys of the table behind the eager table
MaxPending == 2      \* writes of the eager table whose promise is pending at one time
MaxWrites == 3       \* writes of the eager table issued by overlapping tasks in one run

\* ------------------------------------------------------------- constants
Sites == {"s1", "s2"}            \* site ids (createSiteID of url and username)
StoredAtStart == {"s1"}          \* rows of the sites table when the app starts
CORE == "CoreSitesProvider"      \* name of the provider's own site schema
FOO == "Foo"                     \* name of a feature's site schema
Names == {CORE, FOO}
CoreVersion == 2

\* The identifier `name` in applySiteSchema's record literal is bound neither
\* in the method nor in the module: it is the global window.name, the empty
\* string unless a page sets it.
WindowName == ""
RecNames == Names \cup {WindowName}

NoSchema ==
    [name |-> "", version |-> 0, onlyCurrentSite |-> FALSE, tables |-> FALSE,
     migrate |-> FALSE, siteId |-> ""]

\* CoreSiteSchema, as a feature passes it to registerSiteSchema.
CoreSiteSchema ==
    {[name |-> FOO, version |-> v, onlyCurrentSite |-> only, tables |-> ~only,
      migrate |-> TRUE, siteId |-> ""] : v \in 1..MaxVersion, only \in BOOLEAN}

\* this.siteSchema, registered by the constructor.
siteSchema ==
    [name |-> CORE, version |-> CoreVersion, onlyCurrentSite |-> FALSE,
     tables |-> TRUE, migrate |-> TRUE, siteId |-> ""]

\* ---------------------------------------------------------------- callers
\* A promise is named by the call that created it.
NoCaller == <<"", 0, "">>
GetIds == {<<"get", i, "">> : i \in 1..MaxGet}        \* getSite from outside
NewGsIds == {<<"ngs", i, "">> : i \in 1..MaxNew}      \* getSite inside newSite
NewIds == {<<"new", i, "">> : i \in 1..MaxNew}        \* newSite's own migration
RegGsIds == {<<"rgs", r, s>> : r \in 1..MaxReg, s \in Sites}  \* getSite per site
RegIds == {<<"reg", r, s>> : r \in 1..MaxReg, s \in Sites}    \* applySiteSchemas per site
DelId == <<"del", 1, "">>                             \* deleteSite
DelGs == <<"dgs", 1, "">>                             \* getSite inside deleteSite
LoadIds == {<<"load", i, "">> : i \in 1..MaxLoad}     \* loadSite
LoadGsIds == {<<"lgs", i, "">> : i \in 1..MaxLoad}    \* getSite inside loadSite
RestoreIds == {<<"restore", i, "">> : i \in 1..MaxRestore}    \* restoreSession
RestoreLoadIds == {<<"load", i, "rs">> : i \in 1..MaxRestore}  \* its loadSite
RestoreGsIds == {<<"lgs", i, "rs">> : i \in 1..MaxRestore}     \* getSite inside it
AllLoadIds == LoadIds \cup RestoreLoadIds
UrlGs == <<"ugs", 1, "">>    \* makeSiteFromSiteListEntry inside getSiteIdsFromUrl
OutId == <<"out", 1, "">>                             \* logout from outside
DelOut == <<"out", 2, "">>                            \* logout inside deleteSite
OutIds == {OutId, DelOut}
Getters == GetIds \cup NewGsIds \cup RegGsIds \cup {DelGs} \cup LoadGsIds \cup RestoreGsIds
               \cup {UrlGs}
Migrators == Getters \cup NewIds
PassOwners == Migrators \cup RegIds

\* A CoreSite object: its id and the call that constructed it.
NoSite == [id |-> "", by |-> NoCaller]
Site(s, c) == [id |-> s, by |-> c]

VARIABLES
    sitesTable,            \* appDB, SITES_TABLE: the ids of its rows
    currentRow,            \* appDB, CURRENT_SITE_TABLE: siteId of row 1, "" if none
    addPending,            \* addSite calls whose insert has not run yet
    loginPending,          \* login calls whose insert has not run yet
    sites,                 \* this.sites
    currentSite,           \* this.currentSite
    siteSchemas,           \* this.siteSchemas
    siteSchemasMigration,  \* this.siteSchemasMigration
    db,                    \* the sites' databases
    log,                   \* history: createTablesFromSchema and migrate calls
    applied,               \* history: version of the last completed applySiteSchema
    task,                  \* getSite calls
    op,                    \* migrateSiteSchemas promises
    pass,                  \* applySiteSchemas calls
    new,                   \* newSite calls
    reg,                   \* registerSiteSchema calls
    budget,                \* calls from outside and rejections still to come
    session,               \* deleteSite, loadSite and logout calls, their store operations
    rows,                  \* a store table behind a CoreEagerDatabaseTable
    records,               \* CoreEagerDatabaseTable.records
    initialized,           \* initialize() of the table has completed
    inserted,              \* history: the keys of the rows, in the order of their insertion
    writes,                \* the writes of overlapping tasks: pending, and the last settled
    last,                  \* history: the last call on the table and its outcome
    tours,                 \* CoreUserToursService.tours
    tourReadyCallbacks,    \* the tours with an entry in tourReadyCallbacks
    userTour,              \* each tour: its show call and its component
    dismissals,            \* dismiss calls of CoreUserToursService
    shown                  \* history: the tours in the order queued and presented

appVars == <<sitesTable, currentRow, addPending, loginPending>>
memVars == <<sites, currentSite, siteSchemas, siteSchemasMigration>>
dbVars == <<db, log, applied>>
tableVars == <<rows, records, initialized, inserted, writes, last>>
toursVars == <<tours, tourReadyCallbacks, userTour, dismissals, shown>>
sitesVars == <<sitesTable, currentRow, addPending, loginPending, sites, currentSite,
               siteSchemas, siteSchemasMigration, db, log, applied, task, op, pass,
               new, reg, budget, session>>
vars == <<sitesTable, currentRow, addPending, loginPending, sites, currentSite,
          siteSchemas, siteSchemasMigration, db, log, applied, task, op, pass,
          new, reg, budget, session, rows, records, initialized, inserted, writes, last,
          tours, tourReadyCallbacks, userTour, dismissals, shown>>

\* ------------------------------------------------------------ the store
\* SQLiteDB.insertRecord on a table whose primary key is `name`: the row with
\* that key is replaced.
InsertRecord(versions, name, version) == [versions EXCEPT ![name] = version]

\* SQLiteDB.getAllRecords(SCHEMA_VERSIONS_TABLE) followed by the forEach of
\* applySiteSchemas: versions[record.name] = record.version.
GetAllRecords(s) == db[s].versions

\* One applySiteSchema call; prev, err and wrote are history: the version
\* last applied when the versions were read, whether a step of the call
\* rejected, and whether the call wrote its version record.
NoApp == [st |-> "none", old |-> 0, sch |-> NoSchema, prev |-> 0, err |-> FALSE,
          wrote |-> FALSE]
NoPass == [phase |-> "none", sid |-> "", src |-> "", single |-> NoSchema,
           apps |-> [n \in Names |-> NoApp]]
\* One promise of migrateSiteSchemas; known and prior are history: the schemas
\* registered when it was created and the failed migrations of the site then.
NoOp == [st |-> "none", res |-> "", sid |-> "", known |-> {}, prior |-> {}]
NoTask == [pc |-> "idle", sid |-> "", site |-> NoSite, waitOn |-> NoCaller]
NoNew == [pc |-> "idle", sid |-> "", login |-> FALSE, isNewSite |-> TRUE,
          candidateSite |-> NoSite, waitOn |-> NoCaller]
NoReg == [pc |-> "idle", schema |-> NoSchema, siteIds |-> {}]
NoLog == [creates |-> 0, migs |-> <<>>]
\* One deleteSite call; done is history: the steps the call has completed.
NoDel == [pc |-> "idle", sid |-> "", site |-> NoSite, done |-> <<>>]
\* One loadSite call; inMemory is history: the site was in this.sites or
\* current when loadSite was called.
NoLoad == [pc |-> "idle", sid |-> "", inMemory |-> FALSE]
\* One logout call; had is history: a site was current when logout ran.
NoOut == [pc |-> "idle", had |-> FALSE]
\* The calls of the session, the operations on CURRENT_SITE_TABLE issued and
\* not executed yet, in the order of their issue, and the sites' folders.
\* A URL: its protocol ("" when it has none) and its host; the URL of the
\* sites, on which two users have an account, and the URL that is no site's.
NoUrl == [scheme |-> "", host |-> ""]
Urls == {[scheme |-> "https", host |-> "a"], [scheme |-> "https", host |-> "b"],
         [scheme |-> "mailto", host |-> "a"], [scheme |-> "", host |-> "a"]}
Usernames == {"u1", "u2"}
\* One getSiteIdsFromUrl call; stored and loaded are history: the rows
\* getAllRecords returned and the sites of this.sites at that moment.
NoIds == [pc |-> "idle", url |-> NoUrl, prioritize |-> FALSE, username |-> "",
          ids |-> <<>>, after |-> {}, stored |-> {}, loaded |-> {}]
\* restore is the position of each restoreSession call, sessionRestored the
\* provider's flag, dbReady whether the promise this.dbReady has resolved.
NoSession ==
    [del |-> NoDel, load |-> [c \in AllLoadIds |-> NoLoad], out |-> [c \in OutIds |-> NoOut],
     cur |-> <<>>, folder |-> StoredAtStart,
     restore |-> [c \in RestoreIds |-> "idle"], sessionRestored |-> FALSE, dbReady |-> TRUE,
     url |-> NoIds]

\* ------------------------------------------------- the database table
\* A table with the columns id (primary key) and name.  A Partial<DBRecord>
\* is a record in which NoId and NoName stand for a column that is not given.
Ids == 1..MaxKey
ColNames == {"a", "b"}
NoId == 0
NoName == ""
DBRecord == [id : Ids, name : ColNames]
\* Partial<DBRecord>: the callers of the model name one column at most.
PartialDBRecord ==
    {p \in [id : Ids \cup {NoId}, name : ColNames \cup {NoName}] :
        p.id = NoId \/ p.name = NoName}
NoRecord == [id |-> NoId, name |-> NoName]
\* The optional conditions of all, update and delete: undefined, or a partial record.
NoConditions == [given |-> FALSE, id |-> NoId, name |-> NoName]
Conditions ==
    {NoConditions} \cup {[given |-> TRUE, id |-> p.id, name |-> p.name] : p \in PartialDBRecord}
\* CoreDatabaseConditions: the predicates a caller gives, as sql and as js.
Predicates == {"nameIsA", "idAboveOne"}

\* CoreDatabaseTable.recordMatches: every given column has the given value.
recordMatches(record, conditions) ==
    /\ conditions.id # NoId => record.id = conditions.id
    /\ conditions.name # NoName => record.name = conditions.name

\* conditions.js(record).
Js(predicate, record) ==
    IF predicate = "nameIsA" THEN record.name = "a"
    ELSE record.id > 1

\* Object.assign(record, updates).
Assign(record, updates) ==
    [id |-> IF updates.id # NoId THEN updates.id ELSE record.id,
     name |-> IF updates.name # NoName THEN updates.name ELSE record.name]

\* CoreDatabaseTable.getPrimaryKeyFromRecord and serializePrimaryKey.
getPrimaryKeyFromRecord(record) == record.id
serializePrimaryKey(primaryKey) == ToString(primaryKey)
SerializedKeys == {serializePrimaryKey(k) : k \in Ids}

\* The store: the rows of the table, no two with the same primary key.
Unique(table) == \A x, y \in table : x.id = y.id => x = y
\* INSERT: rejected when a row has the primary key.
StoreInsert(table, record) ==
    IF \E x \in table : x.id = record.id
    THEN [ok |-> FALSE, table |-> table]
    ELSE [ok |-> TRUE, table |-> table \cup {record}]
\* UPDATE of the rows of `matching`: rejected as a whole when two rows would
\* get the same primary key.
StoreUpdate(table, updates, matching) ==
    LET after == {IF x \in matching THEN Assign(x, updates) ELSE x : x \in table}
    IN IF Cardinality(after) = Cardinality(table) /\ Unique(after)
       THEN [ok |-> TRUE, table |-> after]
       ELSE [ok |-> FALSE, table |-> table]
\* DELETE of the rows of `matching`.
StoreDelete(table, matching) == [ok |-> TRUE, table |-> table \ matching]

\* The rows a call on the table selects in the store.
Matching(table, conditions) ==
    IF conditions.given THEN {x \in table : recordMatches(x, conditions)} ELSE table
MatchingJs(table, predicate) == {x \in table : Js(predicate, x)}

\* Object.values(this.records).
Values(mirror) == {mirror[k] : k \in SerializedKeys} \ {NoRecord}
\* Object.values(this.records) as the array it is.  Every key of the mirror
\* is the decimal numeral of an id, an array index: own property keys that
\* are array indices are enumerated in ascending numeric order, whatever the
\* order of their creation.
ObjectValues(mirror) ==
    SelectSeq([i \in 1..MaxKey |-> mirror[serializePrimaryKey(i)]],
              LAMBDA record : record # NoRecord)
\* Array.prototype.filter.
Filter(array, conditions) ==
    SelectSeq(array, LAMBDA record : recordMatches(record, conditions))

\* CoreDatabaseReducer: js and jsInitialValue.  "ids" appends the id of the
\* record to the result, "count" adds one to it.
Reducers == {"ids", "count"}
JsInitialValue(reducer) == IF reducer = "ids" THEN <<>> ELSE <<0>>
ReducerJs(reducer, result, record) ==
    IF reducer = "ids" THEN Append(result, record.id) ELSE <<result[1] + 1>>
\* The optional conditions of reduce: undefined, or a predicate.
NoPredicate == ""

\* The order of insertion of the rows of the store after a write.
InsertedAfter(order, before, after) ==
    LET gone == {x.id : x \in before} \ {x.id : x \in after}
        added == {x.id : x \in after} \ {x.id : x \in before}
    IN IF added = {} THEN SelectSeq(order, LAMBDA id : id \notin gone)
       ELSE IF gone = {} THEN order \o <<CHOOSE id \in added : TRUE>>
       ELSE [i \in 1..Len(order) |->
               IF order[i] \in gone THEN CHOOSE id \in added : TRUE ELSE order[i]]

NoLast ==
    [op |-> "none", record |-> NoRecord, updates |-> NoRecord,
     conditions |-> NoConditions, predicate |-> "", primaryKey |-> NoId,
     reducer |-> "", write |-> "none", status |-> "", error |-> "", value |-> {},
     list |-> <<>>, result |-> <<>>,
     before |-> [rows |-> {}, records |-> [k \in SerializedKeys |-> NoRecord]]]

\* A write of the table issued by a task: the call, how far it is (issued to
\* the store, stored) and the store's answer.
NoWrite ==
    [op |-> "none", record |-> NoRecord, updates |-> NoRecord,
     conditions |-> NoConditions, predicate |-> "", primaryKey |-> NoId,
     st |-> "", ok |-> FALSE, error |-> ""]
\* history: `table` is the table as the writes whose promise resolved leave
\* it, `rekeyed` tells that a write updating the primary key column was called.
NoWrites ==
    [pending |-> <<>>, settled |-> NoWrite, left |-> 0, table |-> {}, rekeyed |-> FALSE]

\* No table has been constructed.
TableUnused ==
    /\ rows = {}
    /\ records = [k \in SerializedKeys |-> NoRecord]
    /\ initialized = FALSE
    /\ inserted = <<>>
    /\ writes = NoWrites
    /\ last = NoLast

\* ------------------------------------------------------------ user tours
\* A tour is named by the show call that creates its component.
Tours == 1..MaxTours
NoTour == 0
\* show is the position of the show call, present and dismiss the state of
\* the calls of the component's present() and dismiss().
NoUserTour == [show |-> "idle", present |-> "none", dismiss |-> "none"]
NoDismiss == [pc |-> "idle", activeTour |-> NoTour, nextTour |-> NoTour]
\* CoreUserToursService after construction.
ToursUnused ==
    /\ tours = <<>>
    /\ tourReadyCallbacks = {}
    /\ userTour = [t \in Tours |-> NoUserTour]
    /\ dismissals = [d \in 1..MaxDismiss |-> NoDismiss]
    /\ shown = [queued |-> <<>>, presented |-> <<>>]

\* The state after construction; row is the site CURRENT_SITE_TABLE names
\* since the last run of the app.
InitApp(calls, rejections, row, calling) ==
    /\ sitesTable = StoredAtStart
    /\ currentRow = row
    /\ addPending = {}
    /\ loginPending = {}
    /\ sites = [s \in Sites |-> NoSite]
    /\ currentSite = NoSite
    /\ siteSchemas = [n \in Names |-> IF n = CORE THEN siteSchema ELSE NoSchema]
    /\ siteSchemasMigration = [s \in Sites |-> NoCaller]
    /\ db = [s \in Sites |->
               IF s \in StoredAtStart
               THEN [base |-> TRUE, tables |-> {CORE},
                     versions |-> [n \in RecNames |-> IF n = WindowName THEN CoreVersion ELSE 0]]
               ELSE [base |-> FALSE, tables |-> {},
                     versions |-> [n \in RecNames |-> 0]]]
    /\ log = [s \in Sites |-> [n \in Names |-> NoLog]]
    /\ applied = [s \in Sites |-> [n \in Names |-> 0]]
    /\ task = [c \in Getters |-> NoTask]
    /\ op = [c \in Migrators |-> NoOp]
    /\ pass = [c \in PassOwners |-> NoPass]
    /\ new = [c \in NewIds |-> NoNew]
    /\ reg = [r \in 1..MaxReg |-> NoReg]
    /\ budget = [calls |-> calls, fails |-> rejections]
    /\ session = calling
    /\ ToursUnused

\* The state once this.dbReady has resolved and before any call.
InitFrom(calls, rejections, row) == InitApp(calls, rejections, row, NoSession)

InitWith(calls, rejections) == InitFrom(calls, rejections, "")

Init == InitWith(MaxCalls, MaxFail) /\ TableUnused


\* ------------------------------------------------- applying site schemas
\* The name applySiteSchema records the installed version under.
RecordName(schema) == WindowName

\* applySiteSchema up to its first await: the first store call is issued.
applySiteSchemaStart(schema, oldVersion) ==
    [st |-> IF schema.tables THEN "tables"
            ELSE IF schema.migrate THEN "migrate" ELSE "record",
     old |-> oldVersion, sch |-> schema, prev |-> 0, err |-> FALSE, wrote |-> FALSE]

\* Fault: applySiteSchema going on to its next step when the awaited call has
\* rejected, as if the rejection were caught.
applySiteSchemaSwallowed(app, ok) ==
    IF app.st = "tables"
    THEN [app EXCEPT !.st = IF app.sch.migrate THEN "migrate" ELSE "record"]
    ELSE IF app.st = "migrate" THEN [app EXCEPT !.st = "record"]
    ELSE [app EXCEPT !.st = "done", !.wrote = TRUE]

\* Fault: applySiteSchema writing the version record before it invokes the
\* migrate callback.
applySiteSchemaRecordFirst(app, ok) ==
    IF ~ok THEN [app EXCEPT !.st = "failed"]
    ELSE IF app.st = "tables" THEN [app EXCEPT !.st = "record"]
    ELSE IF app.st = "record"
         THEN [app EXCEPT !.st = IF app.sch.migrate THEN "migrate" ELSE "done",
                          !.wrote = TRUE]
    ELSE [app EXCEPT !.st = "done"]

\* applySiteSchema resumed after the awaited call: the next call is issued, or
\* the rejection leaves the function.
applySiteSchema(app, ok) ==
    IF ~ok THEN [app EXCEPT !.st = "failed"]
    ELSE IF app.st = "tables"
         THEN [app EXCEPT !.st = IF app.sch.migrate THEN "migrate" ELSE "record"]
    ELSE IF app.st = "migrate" THEN [app EXCEPT !.st = "record"]
    ELSE [app EXCEPT !.st = "done", !.wrote = TRUE]

\* Fault: the loop of applySiteSchemas without the test of schema.siteId.
applySiteSchemasLoopUnbound(s, schema, oldVersion) ==
    IF schema = NoSchema THEN NoApp
    ELSE IF oldVersion >= schema.version
         THEN [NoApp EXCEPT !.st = "skip", !.old = oldVersion, !.sch = schema]
    ELSE applySiteSchemaStart(schema, oldVersion)

\* The body of the for loop of applySiteSchemas for one schema name.
applySiteSchemasLoop(s, schema, oldVersion) ==
    IF schema = NoSchema THEN NoApp
    ELSE IF oldVersion >= schema.version \/ (schema.siteId # "" /\ s # schema.siteId)
         THEN [NoApp EXCEPT !.st = "skip", !.old = oldVersion, !.sch = schema]
    ELSE applySiteSchemaStart(schema, oldVersion)

\* History of the calls an application has just issued.
Logged(l, before, after) ==
    IF after.st = before.st THEN l
    ELSE IF after.st = "tables" THEN [l EXCEPT !.creates = @ + 1]
    ELSE IF after.st = "migrate"
         THEN [l EXCEPT !.migs = Append(@, <<after.old, after.sch.version>>)]
    ELSE l

PassRejected(p) == \E n \in Names : p.apps[n].st = "failed"
PassResolved(p) ==
    p.phase = "run" /\ \A n \in Names : p.apps[n].st \in {"none", "skip", "done"}

\* ------------------------------------------------------ the event loop
\* Promise reactions are microtasks: all of them run before the next
\* completion of a store or network operation and before the next call from
\* outside.  Each predicate is the guard of the reaction of the same name.
OpRejected(c) == op[c].st = "baseFail" \/ (op[c].st = "apply" /\ PassRejected(pass[c]))
OpResolved(c) == op[c].st = "apply" /\ PassResolved(pass[c]) /\ ~PassRejected(pass[c])
OpFinallyReady(c) == OpRejected(c) \/ OpResolved(c)
GetSiteLookupReady(c) == task[c].pc = "dbReady"
GetSiteMadeReady(c) == task[c].pc = "makeSite" /\ op[task[c].waitOn].st = "final"
NewSiteGotReady(c) ==
    new[c].pc = "getSite" /\ task[<<"ngs", c[2], "">>].pc \in {"gsOK", "gsFail"}
NewSiteMigratedReady(c) == new[c].pc = "migrate" /\ op[new[c].waitOn].st = "final"
RegSubApplyReady(r, s) ==
    task[<<"rgs", r, s>>].pc = "gsOK" /\ pass[<<"reg", r, s>>].phase = "none"
SubRejected(r, s) ==
    task[<<"rgs", r, s>>].pc = "gsFail" \/ PassRejected(pass[<<"reg", r, s>>])
SubResolved(r, s) ==
    PassResolved(pass[<<"reg", r, s>>]) /\ ~PassRejected(pass[<<"reg", r, s>>])

\* Fault: the sites' promises raced instead of joined: settled with the first
\* of them to settle.
registerSiteSchemaRaced(r) ==
    IF \E s \in reg[r].siteIds : SubRejected(r, s) THEN "rejected"
    ELSE IF \E s \in reg[r].siteIds : SubResolved(r, s) THEN "resolved"
    ELSE "pending"

\* Promise.all over the sites: rejected with the first rejection, resolved
\* when every promise has resolved.
registerSiteSchemaSettled(r) ==
    IF \E s \in reg[r].siteIds : SubRejected(r, s) THEN "rejected"
    ELSE IF \A s \in reg[r].siteIds : SubResolved(r, s) THEN "resolved"
    ELSE "pending"

RegFinallyReady(r) == reg[r].pc = "waitAll" /\ registerSiteSchemaSettled(r) # "pending"
DeleteSiteReadyReady == session.del.pc = "dbReady"
DeleteSiteGotReady == session.del.pc = "getSite" /\ task[DelGs].pc \in {"gsOK", "gsFail"}
LoadSiteGotReady(c) ==
    session.load[c].pc = "getSite" /\ task[<<"lgs", c[2], c[3]>>].pc \in {"gsOK", "gsFail"}
RestoreSessionReadyReady(c) == session.restore[c] = "dbReady" /\ session.dbReady
GetSiteIdsFromUrlReadyReady == session.url.pc = "dbReady"
RestoreSessionLoadedReady(c) ==
    /\ session.restore[c] = "loadSite"
    /\ session.load[<<"load", c[2], "rs">>].pc \in {"resolved", "rejected"}
LogoutReadyReady(c) == session.out[c].pc = "dbReady"

Drained ==
    /\ \A c \in Migrators : ~OpFinallyReady(c)
    /\ \A c \in Getters : ~GetSiteLookupReady(c) /\ ~GetSiteMadeReady(c)
    /\ \A c \in NewIds : ~NewSiteGotReady(c) /\ ~NewSiteMigratedReady(c)
    /\ \A r \in 1..MaxReg : ~RegFinallyReady(r) /\ \A s \in Sites : ~RegSubApplyReady(r, s)
    /\ ~DeleteSiteReadyReady /\ ~DeleteSiteGotReady
    /\ \A c \in AllLoadIds : ~LoadSiteGotReady(c)
    /\ \A c \in RestoreIds : ~RestoreSessionReadyReady(c) /\ ~RestoreSessionLoadedReady(c)
    /\ ~GetSiteIdsFromUrlReadyReady
    /\ \A c \in OutIds : ~LogoutReadyReady(c)

\* Calls made from outside the provider whose promise is still pending.
InFlight ==
    Cardinality({c \in GetIds : task[c].pc \notin {"idle", "gsOK", "gsFail"}})
    + Cardinality({c \in NewIds : new[c].pc \notin {"idle", "resolved", "rejected"}})
    + Cardinality({r \in 1..MaxReg : reg[r].pc \in {"getIds", "waitAll"}})
    + (IF session.del.pc \in {"idle", "resolved", "rejected"} THEN 0 ELSE 1)
    + Cardinality({c \in LoadIds : session.load[c].pc \notin {"idle", "resolved", "rejected"}})
    + (IF session.out[OutId].pc \in {"idle", "resolved", "rejected"} THEN 0 ELSE 1)
    + Cardinality({c \in RestoreIds : session.restore[c] \notin {"idle", "resolved", "rejected"}})
    + (IF session.url.pc \in {"idle", "resolved"} THEN 0 ELSE 1)

\* A call from outside starts in a turn of its own.
CanCall == budget.calls > 0 /\ InFlight < MaxInFlight /\ Drained
CanRegister(r) ==
    /\ reg[r].pc = "idle"
    /\ (IF r = 1 THEN TRUE ELSE reg[r - 1].pc # "idle")
    /\ budget.calls > 0
    /\ Drained

\* applySiteSchemas: getAllRecords has resolved, the loop runs.
PassRead(c) ==
    /\ pass[c].phase = "read"
    /\ Drained
    /\ LET s == pass[c].sid
           versions == GetAllRecords(s)
           schemas == IF pass[c].src = "registry" THEN siteSchemas
                      ELSE [n \in Names |-> IF n = pass[c].single.name
                                            THEN pass[c].single ELSE NoSchema]
           apps == [n \in Names |->
                      [applySiteSchemasLoop(s, schemas[n], versions[n])
                          EXCEPT !.prev = applied[s][n]]]
       IN /\ pass' = [pass EXCEPT ![c].phase = "run", ![c].apps = apps]
          /\ log' = [log EXCEPT ![s] = [n \in Names |-> Logged(log[s][n], NoApp, apps[n])]]
    /\ UNCHANGED <<appVars, memVars, db, applied, task, op, new, reg, budget>>
    /\ UNCHANGED <<session, tableVars, toursVars>>

\* createTablesFromSchema(schema.tables) has resolved.
AppTablesDone(c, n) ==
    /\ pass[c].apps[n].st = "tables"
    /\ Drained
    /\ LET s == pass[c].sid
           app == applySiteSchema(pass[c].apps[n], TRUE)
       IN /\ db' = [db EXCEPT ![s].tables = @ \cup {n}]
          /\ pass' = [pass EXCEPT ![c].apps[n] = app]
          /\ log' = [log EXCEPT ![s][n] = Logged(@, pass[c].apps[n], app)]
    /\ UNCHANGED <<appVars, memVars, applied, task, op, new, reg, budget>>
    /\ UNCHANGED <<session, tableVars, toursVars>>

\* schema.migrate(db, oldVersion, site.id) has resolved.
AppMigrateDone(c, n) ==
    /\ pass[c].apps[n].st = "migrate"
    /\ Drained
    /\ pass' = [pass EXCEPT ![c].apps[n] = applySiteSchema(@, TRUE)]
    /\ UNCHANGED <<appVars, memVars, dbVars, task, op, new, reg, budget>>
    /\ UNCHANGED <<session, tableVars, toursVars>>

\* insertRecord(SCHEMA_VERSIONS_TABLE, ...) has resolved.
AppRecordDone(c, n) ==
    /\ pass[c].apps[n].st = "record"
    /\ Drained
    /\ LET s == pass[c].sid
           schema == pass[c].apps[n].sch
       IN /\ db' = [db EXCEPT ![s].versions =
                        InsertRecord(@, RecordName(schema), schema.version)]
          /\ applied' = [applied EXCEPT ![s][n] = schema.version]
    /\ pass' = [pass EXCEPT ![c].apps[n] = applySiteSchema(@, TRUE)]
    /\ UNCHANGED <<appVars, memVars, log, task, op, new, reg, budget>>
    /\ UNCHANGED <<session, tableVars, toursVars>>

\* createTablesFromSchema or the migrate callback has rejected.
AppFail(c, n) ==
    /\ pass[c].apps[n].st \in {"tables", "migrate"}
    /\ Drained
    /\ budget.fails > 0
    /\ budget' = [budget EXCEPT !.fails = @ - 1]
    /\ pass' = [pass EXCEPT ![c].apps[n] = [applySiteSchema(@, FALSE) EXCEPT !.err = TRUE]]
    /\ UNCHANGED <<appVars, memVars, dbVars, task, op, new, reg>>
    /\ UNCHANGED <<session, tableVars, toursVars>>

\* ------------------------------------------------- migrateSiteSchemas
Registered == {siteSchemas[n] : n \in Names} \ {NoSchema}

\* Fault: migrateSiteSchemas without the test of this.siteSchemasMigration.
migrateSiteSchemasAlways(c, s) ==
    [promise |-> c,
     op |-> [op EXCEPT ![c] = [st |-> "base", res |-> "", sid |-> s,
                               known |-> Registered,
                               prior |-> {d \in Migrators :
                                            op[d].sid = s /\ op[d].res = "fail"}]],
     migration |-> [siteSchemasMigration EXCEPT ![s] = c]]

\* The synchronous part of migrateSiteSchemas(site) called by c: the promise
\* it returns and what it leaves in this.siteSchemasMigration.
migrateSiteSchemas(c, s) ==
    IF siteSchemasMigration[s] # NoCaller
    THEN [promise |-> siteSchemasMigration[s], op |-> op,
          migration |-> siteSchemasMigration]
    ELSE [promise |-> c,
          op |-> [op EXCEPT ![c] = [st |-> "base", res |-> "", sid |-> s,
                                    known |-> Registered,
                                    prior |-> {d \in Migrators :
                                                 op[d].sid = s /\ op[d].res = "fail"}]],
          migration |-> [siteSchemasMigration EXCEPT ![s] = c]]

\* createTablesFromSchema(this.siteTablesSchemas) has resolved: the then
\* callback calls applySiteSchemas(site, this.siteSchemas).
OpBaseDone(c) ==
    /\ op[c].st = "base"
    /\ Drained
    /\ op' = [op EXCEPT ![c].st = "apply"]
    /\ db' = [db EXCEPT ![op[c].sid].base = TRUE]
    /\ pass' = [pass EXCEPT ![c] = [NoPass EXCEPT !.phase = "read", !.sid = op[c].sid,
                                                  !.src = "registry"]]
    /\ UNCHANGED <<appVars, memVars, log, applied, task, new, reg, budget>>
    /\ UNCHANGED <<session, tableVars, toursVars>>

OpBaseFail(c) ==
    /\ op[c].st = "base"
    /\ Drained
    /\ budget.fails > 0
    /\ budget' = [budget EXCEPT !.fails = @ - 1]
    /\ op' = [op EXCEPT ![c].st = "baseFail"]
    /\ UNCHANGED <<appVars, memVars, dbVars, task, pass, new, reg>>
    /\ UNCHANGED <<session, tableVars, toursVars>>

\* Fault: the entry deleted in a then callback, which a rejection passes by.
migrateSiteSchemasThen(c) ==
    IF OpRejected(c) THEN siteSchemasMigration
    ELSE [siteSchemasMigration EXCEPT ![op[c].sid] = NoCaller]

\* promise.finally(() => { delete this.siteSchemasMigration[site.id]; }).
migrateSiteSchemasFinally(c) ==
    [siteSchemasMigration EXCEPT ![op[c].sid] = NoCaller]

\* The finally callback of migrateSiteSchemas: the promise has settled.
OpFinally(c) ==
    /\ OpFinallyReady(c)
    /\ op' = [op EXCEPT ![c].st = "final",
                        ![c].res = IF OpRejected(c) THEN "fail" ELSE "ok"]
    /\ siteSchemasMigration' = migrateSiteSchemasFinally(c)
    /\ UNCHANGED <<appVars, sites, currentSite, siteSchemas, dbVars, task, pass,
                   new, reg, budget>>
    /\ UNCHANGED <<session, tableVars, toursVars>>

\* ------------------------------------------------------------- getSite
\* getSite(siteId) is called from outside the provider.
GetSiteCall(c, s) ==
    /\ task[c].pc = "idle"
    /\ CanCall
    /\ task' = [task EXCEPT ![c].pc = "dbReady", ![c].sid = s]
    /\ UNCHANGED <<appVars, memVars, dbVars, op, pass, new, reg>>
    /\ budget' = [budget EXCEPT !.calls = @ - 1]
    /\ UNCHANGED <<session, tableVars, toursVars>>

\* Fault: getSite reading the sites table without looking at this.currentSite
\* and this.sites.
GetSiteLookupUncached(c) ==
    /\ GetSiteLookupReady(c)
    /\ task' = [task EXCEPT ![c].pc = "getRecord"]
    /\ UNCHANGED <<appVars, memVars, dbVars, op, pass, new, reg, budget>>
    /\ UNCHANGED <<session, tableVars, toursVars>>

\* getSite after `await this.dbReady`.
GetSiteLookup(c) ==
    /\ GetSiteLookupReady(c)
    /\ LET s == task[c].sid
       IN task' =
            IF currentSite # NoSite /\ currentSite.id = s
            THEN [task EXCEPT ![c].pc = "gsOK", ![c].site = currentSite]
            ELSE IF sites[s] # NoSite
            THEN [task EXCEPT ![c].pc = "gsOK", ![c].site = sites[s]]
            ELSE [task EXCEPT ![c].pc = "getRecord"]
    /\ UNCHANGED <<appVars, memVars, dbVars, op, pass, new, reg, budget>>
    /\ UNCHANGED <<session, tableVars, toursVars>>

\* appDB.getRecord has settled: makeSiteFromSiteListEntry up to the promise
\* of migrateSiteSchemas, or the rejection of getRecord.
GetSiteRecord(c) ==
    /\ task[c].pc = "getRecord"
    /\ Drained
    /\ LET s == task[c].sid
           m == migrateSiteSchemas(c, s)
       IN IF s \in sitesTable
          THEN /\ task' = [task EXCEPT ![c].pc = "makeSite", ![c].site = Site(s, c),
                                       ![c].waitOn = m.promise]
               /\ op' = m.op
               /\ siteSchemasMigration' = m.migration
          ELSE /\ task' = [task EXCEPT ![c].pc = "gsFail"]
               /\ UNCHANGED <<op, siteSchemasMigration>>
    /\ UNCHANGED <<appVars, sites, currentSite, siteSchemas, dbVars, pass, new,
                   reg, budget>>
    /\ UNCHANGED <<session, tableVars, toursVars>>

\* Fault: makeSiteFromSiteListEntry storing the site without regard to the
\* outcome of the migration.
makeSiteFromSiteListEntryUnchecked(c) ==
    [sites |-> [sites EXCEPT ![task[c].sid] = task[c].site], pc |-> "gsOK"]

\* The then callback of makeSiteFromSiteListEntry, or the rejection passing it by.
makeSiteFromSiteListEntry(c) ==
    IF op[task[c].waitOn].res = "ok"
    THEN [sites |-> [sites EXCEPT ![task[c].sid] = task[c].site], pc |-> "gsOK"]
    ELSE [sites |-> sites, pc |-> "gsFail"]

GetSiteMade(c) ==
    /\ GetSiteMadeReady(c)
    /\ LET r == makeSiteFromSiteListEntry(c)
       IN /\ sites' = r.sites
          /\ task' = [task EXCEPT ![c].pc = r.pc]
    /\ UNCHANGED <<appVars, currentSite, siteSchemas, siteSchemasMigration, dbVars,
                   op, pass, new, reg, budget>>
    /\ UNCHANGED <<session, tableVars, toursVars>>


\* ------------------------------------------------------------- newSite
NewId(i) == <<"new", i, "">>
NewGs(i) == <<"ngs", i, "">>

\* newSite(siteUrl, token, privateToken, login) has issued fetchSiteInfo
\* and fetchSiteInfo has resolved with a valid version: getSite(siteId) is called.
NewSiteCall(i, s, login) ==
    /\ new[NewId(i)].pc = "idle"
    /\ CanCall
    /\ new' = [new EXCEPT ![NewId(i)].pc = "getSite", ![NewId(i)].sid = s,
                          ![NewId(i)].login = login]
    /\ task' = [task EXCEPT ![NewGs(i)].pc = "dbReady", ![NewGs(i)].sid = s]
    /\ UNCHANGED <<appVars, memVars, dbVars, op, pass, reg>>
    /\ budget' = [budget EXCEPT !.calls = @ - 1]
    /\ UNCHANGED <<session, tableVars, toursVars>>

\* getSite has settled: the site exists already, or the candidate site gets
\* its id and migrateSiteSchemas(candidateSite) is called.
NewSiteGot(i) ==
    /\ NewSiteGotReady(NewId(i))
    /\ LET c == NewId(i)
           s == new[c].sid
           m == migrateSiteSchemas(c, s)
       IN IF task[NewGs(i)].pc = "gsOK"
          THEN /\ new' = [new EXCEPT ![c].pc = "getConfig", ![c].isNewSite = FALSE,
                                     ![c].candidateSite = task[NewGs(i)].site]
               /\ UNCHANGED <<op, siteSchemasMigration>>
          ELSE /\ new' = [new EXCEPT ![c].pc = "migrate", ![c].isNewSite = TRUE,
                                     ![c].candidateSite = Site(s, c),
                                     ![c].waitOn = m.promise]
               /\ op' = m.op
               /\ siteSchemasMigration' = m.migration
    /\ UNCHANGED <<appVars, sites, currentSite, siteSchemas, dbVars, task, pass,
                   reg, budget>>
    /\ UNCHANGED <<session, tableVars, toursVars>>

\* Fault: newSite going on to getSiteConfig whatever migrateSiteSchemas
\* settled with.
newSiteAfterMigrateUnchecked(c) == "getConfig"

\* newSite after migrateSiteSchemas(candidateSite): the next then callback
\* calls getSiteConfig, a rejection goes to the catch at the end of the chain.
newSiteAfterMigrate(c) ==
    IF op[new[c].waitOn].res = "ok" THEN "getConfig" ELSE "rejected"

\* The promise of migrateSiteSchemas(candidateSite) has settled.
NewSiteMigrated(i) ==
    /\ NewSiteMigratedReady(NewId(i))
    /\ new' = [new EXCEPT ![NewId(i)].pc = newSiteAfterMigrate(NewId(i))]
    /\ UNCHANGED <<appVars, memVars, dbVars, task, op, pass, reg, budget>>
    /\ UNCHANGED <<session, tableVars, toursVars>>

\* getSiteConfig has settled and its result is usable: addSite is called
\* without being awaited, the site is stored and, with login, made current.
NewSiteConfig(i) ==
    /\ new[NewId(i)].pc = "getConfig"
    /\ Drained
    /\ LET c == NewId(i)
           s == new[c].sid
       IN /\ addPending' = addPending \cup {s}
          /\ sites' = [sites EXCEPT ![s] = new[c].candidateSite]
          /\ IF new[c].login
             THEN /\ currentSite' = new[c].candidateSite
                  /\ loginPending' = loginPending \cup {s}
             ELSE UNCHANGED <<currentSite, loginPending>>
          /\ new' = [new EXCEPT ![c].pc = "resolved"]
    /\ UNCHANGED <<sitesTable, currentRow, siteSchemas, siteSchemasMigration, dbVars,
                   task, op, pass, reg, budget>>
    /\ UNCHANGED <<session, tableVars, toursVars>>

\* getSiteConfig has rejected for a new site.
NewSiteConfigFail(i) ==
    /\ new[NewId(i)].pc = "getConfig"
    /\ Drained
    /\ new[NewId(i)].isNewSite
    /\ budget.fails > 0
    /\ budget' = [budget EXCEPT !.fails = @ - 1]
    /\ new' = [new EXCEPT ![NewId(i)].pc = "rejected"]
    /\ UNCHANGED <<appVars, memVars, dbVars, task, op, pass, reg>>
    /\ UNCHANGED <<session, tableVars, toursVars>>

\* addSite after `await this.dbReady`: the row is inserted in SITES_TABLE.
AddSiteInsert(s) ==
    /\ s \in addPending
    /\ Drained
    /\ addPending' = addPending \ {s}
    /\ sitesTable' = sitesTable \cup {s}
    /\ UNCHANGED <<currentRow, loginPending, memVars, dbVars, task, op, pass, new,
                   reg, budget>>
    /\ UNCHANGED <<session, tableVars, toursVars>>

\* login after `await this.dbReady`: row 1 of CURRENT_SITE_TABLE is written.
LoginInsert(s) ==
    /\ s \in loginPending
    /\ Drained
    /\ \A i \in 1..Len(session.cur) : s \in session.cur[i].after
    /\ loginPending' = loginPending \ {s}
    /\ currentRow' = s
    /\ UNCHANGED <<sitesTable, addPending, memVars, dbVars, task, op, pass, new,
                   reg, budget>>
    /\ UNCHANGED <<session, tableVars, toursVars>>

\* -------------------------------------------------- registerSiteSchema
RegGs(r, s) == <<"rgs", r, s>>
RegId(r, s) == <<"reg", r, s>>
SinglePass(s, schema) ==
    [NoPass EXCEPT !.phase = "read", !.sid = s, !.src = "single", !.single = schema]

\* Fault: registerSiteSchema without a current site forgetting the schema.
RegisterDeferredDropped(r, schema) ==
    /\ CanRegister(r)
    /\ currentSite = NoSite /\ ~schema.onlyCurrentSite
    /\ reg' = [reg EXCEPT ![r] = [pc |-> "resolved", schema |-> schema, siteIds |-> {}]]
    /\ UNCHANGED <<appVars, memVars, dbVars, task, op, pass, new>>
    /\ budget' = [budget EXCEPT !.calls = @ - 1]
    /\ UNCHANGED <<session, tableVars, toursVars>>

\* No current site, schema for all sites: it is only stored.
RegisterDeferred(r, schema) ==
    /\ CanRegister(r)
    /\ currentSite = NoSite /\ ~schema.onlyCurrentSite
    /\ siteSchemas' = [siteSchemas EXCEPT ![schema.name] = schema]
    /\ reg' = [reg EXCEPT ![r] = [pc |-> "resolved", schema |-> schema, siteIds |-> {}]]
    /\ UNCHANGED <<appVars, sites, currentSite, siteSchemasMigration, dbVars, task,
                   op, pass, new>>
    /\ budget' = [budget EXCEPT !.calls = @ - 1]
    /\ UNCHANGED <<session, tableVars, toursVars>>

\* Fault: registerSiteSchema without a current site storing a schema meant
\* for the current site.
RegisterIgnoredStored(r, schema) ==
    /\ CanRegister(r)
    /\ currentSite = NoSite /\ schema.onlyCurrentSite
    /\ siteSchemas' = [siteSchemas EXCEPT ![schema.name] = schema]
    /\ reg' = [reg EXCEPT ![r] = [pc |-> "resolved", schema |-> schema, siteIds |-> {}]]
    /\ UNCHANGED <<appVars, sites, currentSite, siteSchemasMigration, dbVars, task,
                   op, pass, new>>
    /\ budget' = [budget EXCEPT !.calls = @ - 1]
    /\ UNCHANGED <<session, tableVars, toursVars>>

\* No current site, schema for the current site only: nothing is done.
RegisterIgnored(r, schema) ==
    /\ CanRegister(r)
    /\ currentSite = NoSite /\ schema.onlyCurrentSite
    /\ reg' = [reg EXCEPT ![r] = [pc |-> "resolved", schema |-> schema, siteIds |-> {}]]
    /\ UNCHANGED <<appVars, memVars, dbVars, task, op, pass, new>>
    /\ budget' = [budget EXCEPT !.calls = @ - 1]
    /\ UNCHANGED <<session, tableVars, toursVars>>

\* A current site, schema for all sites: getSitesIds is awaited.
RegisterAll(r, schema) ==
    /\ CanRegister(r)
    /\ CanCall
    /\ currentSite # NoSite /\ ~schema.onlyCurrentSite
    /\ reg' = [reg EXCEPT ![r] = [pc |-> "getIds", schema |-> schema, siteIds |-> {}]]
    /\ UNCHANGED <<appVars, memVars, dbVars, task, op, pass, new>>
    /\ budget' = [budget EXCEPT !.calls = @ - 1]
    /\ UNCHANGED <<session, tableVars, toursVars>>

\* A current site, schema for it only: applySiteSchemas(this.currentSite, schemas).
RegisterCurrent(r, schema) ==
    /\ CanRegister(r)
    /\ CanCall
    /\ currentSite # NoSite /\ schema.onlyCurrentSite
    /\ LET s == currentSite.id
           bound == [schema EXCEPT !.siteId = s]
       IN /\ reg' = [reg EXCEPT ![r] = [pc |-> "waitAll", schema |-> bound, siteIds |-> {s}]]
          /\ pass' = [pass EXCEPT ![RegId(r, s)] = SinglePass(s, bound)]
    /\ UNCHANGED <<appVars, memVars, dbVars, task, op, new>>
    /\ budget' = [budget EXCEPT !.calls = @ - 1]
    /\ UNCHANGED <<session, tableVars, toursVars>>

\* getSitesIds has resolved: getSite(siteId) is called for each id.
RegGotIds(r) ==
    /\ reg[r].pc = "getIds"
    /\ Drained
    /\ reg' = [reg EXCEPT ![r].pc = "waitAll", ![r].siteIds = sitesTable]
    /\ task' = [c \in Getters |->
                  IF \E s \in sitesTable : c = RegGs(r, s)
                  THEN [NoTask EXCEPT !.pc = "dbReady", !.sid = c[3]]
                  ELSE task[c]]
    /\ UNCHANGED <<appVars, memVars, dbVars, op, pass, new, budget>>
    /\ UNCHANGED <<session, tableVars, toursVars>>

\* getSite(siteId) has resolved: applySiteSchemas(site, schemas) is called.
RegSubApply(r, s) ==
    /\ RegSubApplyReady(r, s)
    /\ pass' = [pass EXCEPT ![RegId(r, s)] = SinglePass(s, reg[r].schema)]
    /\ UNCHANGED <<appVars, memVars, dbVars, task, op, new, reg, budget>>
    /\ UNCHANGED <<session, tableVars, toursVars>>

\* The finally block of registerSiteSchema.
RegFinally(r) ==
    /\ RegFinallyReady(r)
    /\ siteSchemas' = [siteSchemas EXCEPT ![reg[r].schema.name] = reg[r].schema]
    /\ reg' = [reg EXCEPT ![r].pc = registerSiteSchemaSettled(r)]
    /\ UNCHANGED <<appVars, sites, currentSite, siteSchemasMigration, dbVars, task,
                   op, pass, new, budget>>
    /\ UNCHANGED <<session, tableVars, toursVars>>

\* ---------------------------------------------------------------- system
Next ==
    \/ \E c \in GetIds, s \in Sites : GetSiteCall(c, s)
    \/ \E c \in Getters : GetSiteLookup(c) \/ GetSiteRecord(c) \/ GetSiteMade(c)
    \/ \E c \in Migrators : OpBaseDone(c) \/ OpBaseFail(c) \/ OpFinally(c)
    \/ \E c \in PassOwners : PassRead(c)
    \/ \E c \in PassOwners, n \in Names :
          AppTablesDone(c, n) \/ AppMigrateDone(c, n) \/ AppRecordDone(c, n) \/ AppFail(c, n)
    \/ \E i \in 1..MaxNew, s \in Sites, login \in BOOLEAN : NewSiteCall(i, s, login)
    \/ \E i \in 1..MaxNew :
          NewSiteGot(i) \/ NewSiteMigrated(i) \/ NewSiteConfig(i)
              \/ NewSiteConfigFail(i)
    \/ \E s \in Sites : AddSiteInsert(s) \/ LoginInsert(s)
    \/ \E r \in 1..MaxReg, schema \in CoreSiteSchema :
          RegisterDeferred(r, schema) \/ RegisterIgnored(r, schema)
              \/ RegisterAll(r, schema) \/ RegisterCurrent(r, schema)
    \/ \E r \in 1..MaxReg : RegGotIds(r) \/ RegFinally(r)
    \/ \E r \in 1..MaxReg, s \in Sites : RegSubApply(r, s)

Spec == Init /\ [][Next]_vars

\* The same system when no store operation, callback or request rejects.
InitNoFail == InitWith(MaxCallsNoFail, 0) /\ TableUnused
NextNoFail ==
    \/ \E c \in GetIds, s \in Sites : GetSiteCall(c, s)
    \/ \E c \in Getters : GetSiteLookup(c) \/ GetSiteRecord(c) \/ GetSiteMade(c)
    \/ \E c \in Migrators : OpBaseDone(c) \/ OpFinally(c)
    \/ \E c \in PassOwners : PassRead(c)
    \/ \E c \in PassOwners, n \in Names :
          AppTablesDone(c, n) \/ AppMigrateDone(c, n) \/ AppRecordDone(c, n)
    \/ \E i \in 1..MaxNew, s \in Sites, login \in BOOLEAN : NewSiteCall(i, s, login)
    \/ \E i \in 1..MaxNew : NewSiteGot(i) \/ NewSiteMigrated(i) \/ NewSiteConfig(i)
    \/ \E s \in Sites : AddSiteInsert(s) \/ LoginInsert(s)
    \/ \E r \in 1..MaxReg, schema \in CoreSiteSchema :
          RegisterDeferred(r, schema) \/ RegisterIgnored(r, schema)
              \/ RegisterAll(r, schema) \/ RegisterCurrent(r, schema)
    \/ \E r \in 1..MaxReg : RegGotIds(r) \/ RegFinally(r)
    \/ \E r \in 1..MaxReg, s \in Sites : RegSubApply(r, s)

SpecNoFail == InitNoFail /\ [][NextNoFail]_vars

\* ------------------------------------------------------------- session
\* A site database after CoreSite.deleteDB.
DeletedDB == [base |-> FALSE, tables |-> {}, versions |-> [n \in RecNames |-> 0]]

\* An operation on CURRENT_SITE_TABLE as it is issued; `after` is the logins
\* of newSite issued before it, which the store executes first.
CurOp(kind, s, c) == [kind |-> kind, sid |-> s, by |-> c, after |-> loginPending]

\* logout() is called from outside the provider.
LogoutCall ==
    /\ session.out[OutId].pc = "idle"
    /\ CanCall
    /\ session' = [session EXCEPT !.out[OutId].pc = "dbReady"]
    /\ budget' = [budget EXCEPT !.calls = @ - 1]
    /\ UNCHANGED <<appVars, memVars, dbVars, task, op, pass, new, reg, tableVars, toursVars>>

\* Fault: logout clearing the current site and leaving its row.
LogoutReadyRowKept(c) ==
    /\ LogoutReadyReady(c)
    /\ currentSite' = NoSite
    /\ session' = [session EXCEPT !.out[c] = [pc |-> "resolved", had |-> currentSite # NoSite]]
    /\ UNCHANGED <<appVars, sites, siteSchemas, siteSchemasMigration, dbVars, task, op,
                   pass, new, reg, budget, tableVars, toursVars>>

\* logout after `await this.dbReady`: with a current site it is forgotten and
\* deleteRecords(CURRENT_SITE_TABLE, { id: 1 }) is issued; without one
\* Promise.all([]) resolves.
LogoutReady(c) ==
    /\ LogoutReadyReady(c)
    /\ IF currentSite # NoSite
       THEN /\ currentSite' = NoSite
            /\ session' = [session EXCEPT !.out[c] = [pc |-> "deleting", had |-> TRUE],
                                          !.cur = Append(@, CurOp("delete", "", c))]
       ELSE /\ session' = [session EXCEPT !.out[c] = [pc |-> "resolved", had |-> FALSE]]
            /\ UNCHANGED currentSite
    /\ UNCHANGED <<appVars, sites, siteSchemas, siteSchemasMigration, dbVars, task, op,
                   pass, new, reg, budget, tableVars, toursVars>>

\* The store executes the oldest operation on CURRENT_SITE_TABLE: the row of
\* login is written, or the row is deleted and logout resolves.
CurrentSiteOp ==
    /\ session.cur # <<>>
    /\ Drained
    /\ LET o == Head(session.cur)
       IN /\ o.kind \in {"insert", "delete"}
          /\ o.after \cap loginPending = {}
          /\ currentRow' = IF o.kind = "insert" THEN o.sid ELSE ""
          /\ session' = [session EXCEPT
                            !.cur = Tail(@),
                            !.out = IF o.kind = "delete"
                                    THEN [@ EXCEPT ![o.by].pc = "resolved"] ELSE @]
    /\ UNCHANGED <<sitesTable, addPending, loginPending, memVars, dbVars, task, op, pass,
                   new, reg, budget, tableVars, toursVars>>

\* deleteRecords(CURRENT_SITE_TABLE, ...) rejects: logout rejects.
CurrentSiteOpFail ==
    /\ session.cur # <<>>
    /\ Drained
    /\ Head(session.cur).kind = "delete"
    /\ Head(session.cur).after \cap loginPending = {}
    /\ budget.fails > 0
    /\ budget' = [budget EXCEPT !.fails = @ - 1]
    /\ session' = [session EXCEPT !.cur = Tail(@),
                                  !.out[Head(session.cur).by].pc = "rejected"]
    /\ UNCHANGED <<appVars, memVars, dbVars, task, op, pass, new, reg, tableVars, toursVars>>

\* deleteSite(siteId) is called from outside the provider.
DeleteSiteCall(s) ==
    /\ session.del.pc = "idle"
    /\ CanCall
    /\ session' = [session EXCEPT !.del = [NoDel EXCEPT !.pc = "dbReady", !.sid = s]]
    /\ budget' = [budget EXCEPT !.calls = @ - 1]
    /\ UNCHANGED <<appVars, memVars, dbVars, task, op, pass, new, reg, tableVars, toursVars>>

\* deleteSite after `await this.dbReady`: logout() is called without being
\* awaited when the site is current, then getSite(siteId) is called.
DeleteSiteReady ==
    /\ DeleteSiteReadyReady
    /\ LET s == session.del.sid
       IN /\ session' = [session EXCEPT
                            !.del.pc = "getSite",
                            !.out[DelOut].pc =
                                IF currentSite # NoSite /\ currentSite.id = s
                                THEN "dbReady" ELSE @]
          /\ task' = [task EXCEPT ![DelGs] = [NoTask EXCEPT !.pc = "dbReady", !.sid = s]]
    /\ UNCHANGED <<appVars, memVars, dbVars, op, pass, new, reg, budget, tableVars, toursVars>>

\* Fault: deleteSite removing the folder before the database and the rows.
deleteSiteFolderFirst(pc) ==
    IF pc = "getSite" THEN "deleteFolder"
    ELSE IF pc = "deleteFolder" THEN "deleteDB"
    ELSE IF pc = "deleteDB" THEN "deleteRecords"
    ELSE "resolved"

\* The call deleteSite awaits after the one that has settled.
deleteSite(pc) ==
    IF pc = "getSite" THEN "deleteDB"
    ELSE IF pc = "deleteDB" THEN "deleteRecords"
    ELSE IF pc = "deleteRecords" THEN "deleteFolder"
    ELSE "resolved"

\* getSite(siteId) has settled: site.deleteDB() is called, or deleteSite rejects.
DeleteSiteGot ==
    /\ DeleteSiteGotReady
    /\ session' = IF task[DelGs].pc = "gsOK"
                  THEN [session EXCEPT !.del.pc = deleteSite("getSite"),
                                       !.del.site = task[DelGs].site]
                  ELSE [session EXCEPT !.del.pc = "rejected"]
    /\ UNCHANGED <<appVars, memVars, dbVars, task, op, pass, new, reg, budget, tableVars, toursVars>>

\* The call deleteSite awaits has settled.  After deleteDB the site is
\* deleted from this.sites; a rejection of deleteRecords is caught and
\* ignored; after deleteFolder SITE_DELETED is triggered.  The store executes
\* the operations of the app database in the order of their issue: the
\* deleteRecords of logout() was issued before deleteRecords(SITES_TABLE).
DeleteSiteStep(fails) ==
    /\ session.del.pc \in {"deleteDB", "deleteRecords", "deleteFolder"}
    /\ Drained
    /\ fails => (session.del.pc = "deleteRecords" /\ budget.fails > 0)
    /\ session.del.pc = "deleteRecords" =>
          \A i \in 1..Len(session.cur) : session.cur[i].by # DelOut
    /\ LET s == session.del.sid
           pc == session.del.pc
           next == deleteSite(pc)
           steps == IF pc = "deleteDB" THEN <<"deleteDB", "sites">>
                    ELSE IF pc = "deleteRecords"
                         THEN <<IF fails THEN "deleteRecordsFailed" ELSE "deleteRecords">>
                    ELSE <<"deleteFolder">>
       IN /\ db' = IF pc = "deleteDB" THEN [db EXCEPT ![s] = DeletedDB] ELSE db
          /\ sites' = IF pc = "deleteDB" THEN [sites EXCEPT ![s] = NoSite] ELSE sites
          /\ sitesTable' = IF pc = "deleteRecords" /\ ~fails THEN sitesTable \ {s}
                           ELSE sitesTable
          /\ session' = [session EXCEPT
                            !.del.pc = next,
                            !.del.done = @ \o steps \o
                                (IF next = "resolved" THEN <<"SITE_DELETED">> ELSE <<>>),
                            !.folder = IF pc = "deleteFolder" THEN @ \ {s} ELSE @]
    /\ budget' = IF fails THEN [budget EXCEPT !.fails = @ - 1] ELSE budget
    /\ UNCHANGED <<currentRow, addPending, loginPending, currentSite, siteSchemas,
                   siteSchemasMigration, log, applied, task, op, pass, new, reg, tableVars, toursVars>>

\* site.deleteDB() or site.deleteFolder() rejects: deleteSite rejects.
DeleteSiteReject ==
    /\ session.del.pc \in {"deleteDB", "deleteFolder"}
    /\ Drained
    /\ budget.fails > 0
    /\ budget' = [budget EXCEPT !.fails = @ - 1]
    /\ session' = [session EXCEPT !.del.pc = "rejected"]
    /\ UNCHANGED <<appVars, memVars, dbVars, task, op, pass, new, reg, tableVars, toursVars>>

LoadId(i) == <<"load", i, "">>
LoadGs(i) == <<"lgs", i, "">>

\* loadSite(siteId) is called from outside the provider: getSite(siteId).
LoadSiteCall(i, s) ==
    /\ session.load[LoadId(i)].pc = "idle"
    /\ CanCall
    /\ session' = [session EXCEPT
                      !.load[LoadId(i)] =
                          [pc |-> "getSite", sid |-> s,
                           inMemory |-> (currentSite # NoSite /\ currentSite.id = s)
                                            \/ sites[s] # NoSite]]
    /\ task' = [task EXCEPT ![LoadGs(i)] = [NoTask EXCEPT !.pc = "dbReady", !.sid = s]]
    /\ budget' = [budget EXCEPT !.calls = @ - 1]
    /\ UNCHANGED <<appVars, memVars, dbVars, op, pass, new, reg, tableVars, toursVars>>

\* getSite has settled: the site is made current; a logged out site ends
\* loadSite, otherwise the checks of the site are awaited.
loadSiteGot(c, g, loggedOut) ==
    /\ LoadSiteGotReady(c)
    /\ IF task[g].pc = "gsFail"
       THEN /\ session' = [session EXCEPT !.load[c].pc = "rejected"]
            /\ UNCHANGED currentSite
       ELSE /\ currentSite' = task[g].site
            /\ session' = [session EXCEPT !.load[c].pc =
                                              IF loggedOut THEN "resolved" ELSE "check"]
    /\ UNCHANGED <<appVars, sites, siteSchemas, siteSchemasMigration, dbVars, task, op,
                   pass, new, reg, budget, tableVars, toursVars>>

\* The checks of the site have settled: login(siteId) is called without
\* being awaited, or loadSite ends without it.
loadSiteChecked(c, ok) ==
    /\ session.load[c].pc = "check"
    /\ Drained
    /\ session' = [session EXCEPT
                      !.load[c].pc = "resolved",
                      !.cur = IF ok
                              THEN Append(@, CurOp("insert", session.load[c].sid, c))
                              ELSE @]
    /\ UNCHANGED <<appVars, memVars, dbVars, task, op, pass, new, reg, budget, tableVars, toursVars>>

LoadSiteGot(i, loggedOut) == loadSiteGot(LoadId(i), LoadGs(i), loggedOut)
LoadSiteChecked(i, ok) == loadSiteChecked(LoadId(i), ok)

\* The app with the row of a former run or none, and deleteSite, loadSite,
\* logout next to getSite and newSite.
InitSession ==
    /\ \E row \in StoredAtStart \cup {""} : InitFrom(MaxCallsSession, MaxFail, row)
    /\ TableUnused

NextSession ==
    \/ \E c \in GetIds, s \in Sites : GetSiteCall(c, s)
    \/ \E c \in Getters : GetSiteLookup(c) \/ GetSiteRecord(c) \/ GetSiteMade(c)
    \/ \E c \in Migrators : OpBaseDone(c) \/ OpFinally(c)
    \/ \E c \in PassOwners : PassRead(c)
    \/ \E c \in PassOwners, n \in Names :
          AppTablesDone(c, n) \/ AppMigrateDone(c, n) \/ AppRecordDone(c, n)
    \/ \E i \in 1..MaxNew, s \in Sites, login \in BOOLEAN : NewSiteCall(i, s, login)
    \/ \E i \in 1..MaxNew : NewSiteGot(i) \/ NewSiteMigrated(i) \/ NewSiteConfig(i)
    \/ \E s \in Sites : AddSiteInsert(s) \/ LoginInsert(s)
    \/ LogoutCall
    \/ \E c \in OutIds : LogoutReady(c)
    \/ CurrentSiteOp
    \/ CurrentSiteOpFail
    \/ \E s \in Sites : DeleteSiteCall(s)
    \/ DeleteSiteReady
    \/ DeleteSiteGot
    \/ \E fails \in BOOLEAN : DeleteSiteStep(fails)
    \/ DeleteSiteReject
    \/ \E i \in 1..MaxLoad, s \in Sites : LoadSiteCall(i, s)
    \/ \E i \in 1..MaxLoad, loggedOut \in BOOLEAN : LoadSiteGot(i, loggedOut)
    \/ \E i \in 1..MaxLoad, ok \in BOOLEAN : LoadSiteChecked(i, ok)

SpecSession == InitSession /\ [][NextSession]_vars

\* ------------------------------------------------------ restoreSession
RestoreId(i) == <<"restore", i, "">>
RestoreLoad(i) == <<"load", i, "rs">>
RestoreGs(i) == <<"lgs", i, "rs">>

\* restoreSession() is called from outside the provider: with the flag set
\* it rejects, otherwise it awaits this.dbReady.
RestoreSessionCall(i) ==
    /\ session.restore[RestoreId(i)] = "idle"
    /\ CanCall
    /\ session' = [session EXCEPT
                      !.restore[RestoreId(i)] =
                          IF session.sessionRestored THEN "rejected" ELSE "dbReady"]
    /\ budget' = [budget EXCEPT !.calls = @ - 1]
    /\ UNCHANGED <<appVars, memVars, dbVars, task, op, pass, new, reg, tableVars, toursVars>>

\* createTablesFromSchema(this.appTablesSchema) of the constructor settles:
\* this.dbReady resolves, a rejection being caught.
AppDBReady ==
    /\ ~session.dbReady
    /\ session' = [session EXCEPT !.dbReady = TRUE]
    /\ UNCHANGED <<appVars, memVars, dbVars, task, op, pass, new, reg, budget, tableVars, toursVars>>

\* restoreSession after `await this.dbReady`: the flag is set and
\* getRecord(CURRENT_SITE_TABLE, { id: 1 }) is issued.
RestoreSessionReady(i) ==
    /\ RestoreSessionReadyReady(RestoreId(i))
    /\ session' = [session EXCEPT
                      !.sessionRestored = TRUE,
                      !.restore[RestoreId(i)] = "getRecord",
                      !.cur = Append(@, CurOp("get", "", RestoreId(i)))]
    /\ UNCHANGED <<appVars, memVars, dbVars, task, op, pass, new, reg, budget, tableVars, toursVars>>

\* The store executes getRecord: without a row it rejects, which the catch
\* block swallows; with one loadSite(siteId) is called, which calls getSite.
RestoreSessionRecord(i) ==
    /\ session.cur # <<>>
    /\ Drained
    /\ Head(session.cur).kind = "get"
    /\ Head(session.cur).by = RestoreId(i)
    /\ Head(session.cur).after \cap loginPending = {}
    /\ IF currentRow = ""
       THEN /\ session' = [session EXCEPT !.cur = Tail(@),
                                          !.restore[RestoreId(i)] = "resolved"]
            /\ UNCHANGED task
       ELSE /\ session' = [session EXCEPT
                              !.cur = Tail(@),
                              !.restore[RestoreId(i)] = "loadSite",
                              !.load[RestoreLoad(i)] =
                                  [pc |-> "getSite", sid |-> currentRow,
                                   inMemory |-> (currentSite # NoSite
                                                    /\ currentSite.id = currentRow)
                                                    \/ sites[currentRow] # NoSite]]
            /\ task' = [task EXCEPT
                           ![RestoreGs(i)] = [NoTask EXCEPT !.pc = "dbReady",
                                                            !.sid = currentRow]]
    /\ UNCHANGED <<appVars, memVars, dbVars, op, pass, new, reg, budget, tableVars, toursVars>>

\* loadSite has settled: restoreSession resolves, a rejection being caught.
RestoreSessionLoaded(i) ==
    /\ RestoreSessionLoadedReady(RestoreId(i))
    /\ session' = [session EXCEPT !.restore[RestoreId(i)] = "resolved"]
    /\ UNCHANGED <<appVars, memVars, dbVars, task, op, pass, new, reg, budget, tableVars, toursVars>>

\* The app from its construction, this.dbReady pending, with the row of a
\* former run or none; restoreSession is the only call from outside.
InitRestore ==
    /\ \E row \in StoredAtStart \cup {""} :
          InitApp(MaxRestore, MaxFail, row, [NoSession EXCEPT !.dbReady = FALSE])
    /\ TableUnused

NextRestore ==
    \/ \E i \in 1..MaxRestore : RestoreSessionCall(i)
    \/ AppDBReady
    \/ \E i \in 1..MaxRestore :
          RestoreSessionReady(i) \/ RestoreSessionRecord(i) \/ RestoreSessionLoaded(i)
    \/ \E c \in Getters : GetSiteLookup(c) \/ GetSiteRecord(c) \/ GetSiteMade(c)
    \/ \E c \in Migrators : OpBaseDone(c) \/ OpBaseFail(c) \/ OpFinally(c)
    \/ \E c \in PassOwners : PassRead(c)
    \/ \E c \in PassOwners, n \in Names :
          AppTablesDone(c, n) \/ AppMigrateDone(c, n) \/ AppRecordDone(c, n) \/ AppFail(c, n)
    \/ \E i \in 1..MaxRestore, loggedOut \in BOOLEAN :
          loadSiteGot(RestoreLoad(i), RestoreGs(i), loggedOut)
    \/ \E i \in 1..MaxRestore, ok \in BOOLEAN : loadSiteChecked(RestoreLoad(i), ok)
    \/ CurrentSiteOp

SpecRestore == InitRestore /\ [][NextRestore]_vars

\* ---------------------------------------------------- getSiteIdsFromUrl
\* The site URL and the user of each site: two accounts in the same site.
SiteHost(s) == "a"
SiteUsername(s) == IF s = "s1" THEN "u1" ELSE "u2"
\* CoreSite.containsUrl(url): the URL is one of the site.
containsUrl(s, url) == url.host = SiteHost(s)
\* url.match(/^https?:\/\//i) and CoreUrlUtils.isAbsoluteURL(url).
IsHttp(url) == url.scheme \in {"http", "https"}
isAbsoluteURL(url) == url.scheme # ""
\* The rows getAllRecords(SITES_TABLE) returns, in the order of their ids.
SiteOrder == <<"s1", "s2">>
IsStored(s) == s \in sitesTable
siteEntries == SelectSeq(SiteOrder, IsStored)
\* The index of the first entry whose site is not in this.sites, 0 if none.
FirstNotLoaded(entries) ==
    LET missing == {i \in 1..Len(entries) : sites[entries[i]] = NoSite}
    IN IF missing = {} THEN 0 ELSE CHOOSE i \in missing : \A j \in missing : i <= j
\* ids after the forEach over entries that are all in this.sites.
MatchingIds(entries, url, username) ==
    LET Matches(s) == containsUrl(s, url) /\ (username = "" \/ SiteUsername(s) = username)
    IN SelectSeq(entries, Matches)

\* getSiteIdsFromUrl(url, prioritize, username) is called from outside.
GetSiteIdsFromUrlCall(url, prioritize, username) ==
    /\ session.url.pc = "idle"
    /\ CanCall
    /\ session' = [session EXCEPT
                      !.url = [NoIds EXCEPT !.pc = "dbReady", !.url = url,
                                            !.prioritize = prioritize,
                                            !.username = username]]
    /\ budget' = [budget EXCEPT !.calls = @ - 1]
    /\ UNCHANGED <<appVars, memVars, dbVars, task, op, pass, new, reg, tableVars, toursVars>>

\* getSiteIdsFromUrl after `await this.dbReady`: the current site when it
\* is prioritized and contains the URL, no site or the current one for a URL
\* without http(s), otherwise getAllRecords(SITES_TABLE) is issued.
GetSiteIdsFromUrlReady ==
    /\ GetSiteIdsFromUrlReadyReady
    /\ LET u == session.url
           cur == IF currentSite = NoSite THEN <<>> ELSE <<currentSite.id>>
       IN session' =
             IF /\ u.prioritize
                /\ currentSite # NoSite
                /\ containsUrl(currentSite.id, u.url)
                /\ (u.username = "" \/ SiteUsername(currentSite.id) = u.username)
             THEN [session EXCEPT !.url.pc = "resolved", !.url.ids = cur]
             ELSE IF ~IsHttp(u.url)
             THEN [session EXCEPT !.url.pc = "resolved",
                                  !.url.ids = IF isAbsoluteURL(u.url) THEN <<>> ELSE cur]
             ELSE [session EXCEPT !.url.pc = "getAllRecords", !.url.after = addPending]
    /\ UNCHANGED <<appVars, memVars, dbVars, task, op, pass, new, reg, budget, tableVars, toursVars>>

\* getAllRecords has resolved: the forEach over the entries.  For the first
\* entry whose site is not in this.sites, makeSiteFromSiteListEntry is
\* called and `this.sites[site.id].containsUrl` throws on undefined, which
\* ends the forEach; the catch block returns [].
GetSiteIdsFromUrlRecords ==
    /\ session.url.pc = "getAllRecords"
    /\ Drained
    /\ session.url.after \cap addPending = {}
    /\ LET entries == siteEntries
           i == FirstNotLoaded(entries)
           s == entries[i]
           m == migrateSiteSchemas(UrlGs, s)
           read == [session.url EXCEPT !.pc = "resolved", !.stored = sitesTable,
                                       !.loaded = {x \in Sites : sites[x] # NoSite}]
       IN IF i = 0
          THEN /\ session' = [session EXCEPT
                                 !.url = [read EXCEPT
                                             !.ids = MatchingIds(entries, session.url.url,
                                                                 session.url.username)]]
               /\ UNCHANGED <<task, op, siteSchemasMigration>>
          ELSE /\ session' = [session EXCEPT !.url = [read EXCEPT !.ids = <<>>]]
               /\ task' = [task EXCEPT ![UrlGs] = [pc |-> "makeSite", sid |-> s,
                                                   site |-> Site(s, UrlGs),
                                                   waitOn |-> m.promise]]
               /\ op' = m.op
               /\ siteSchemasMigration' = m.migration
    /\ UNCHANGED <<appVars, sites, currentSite, siteSchemas, dbVars, pass, new, reg,
                   budget, tableVars, toursVars>>

\* getSite, newSite and getSiteIdsFromUrl when nothing rejects.
InitUrl == InitWith(MaxCallsUrl, 0) /\ TableUnused
NextUrl ==
    \/ \E c \in GetIds, s \in Sites : GetSiteCall(c, s)
    \/ \E c \in Getters : GetSiteLookup(c) \/ GetSiteRecord(c) \/ GetSiteMade(c)
    \/ \E c \in Migrators : OpBaseDone(c) \/ OpFinally(c)
    \/ \E c \in PassOwners : PassRead(c)
    \/ \E c \in PassOwners, n \in Names :
          AppTablesDone(c, n) \/ AppMigrateDone(c, n) \/ AppRecordDone(c, n)
    \/ \E i \in 1..MaxNew, s \in Sites, login \in BOOLEAN : NewSiteCall(i, s, login)
    \/ \E i \in 1..MaxNew : NewSiteGot(i) \/ NewSiteMigrated(i) \/ NewSiteConfig(i)
    \/ \E s \in Sites : AddSiteInsert(s) \/ LoginInsert(s)
    \/ \E url \in Urls, prioritize \in BOOLEAN, username \in {"", "u1"} :
          GetSiteIdsFromUrlCall(url, prioritize, username)
    \/ GetSiteIdsFromUrlReady
    \/ GetSiteIdsFromUrlRecords

SpecUrl == InitUrl /\ [][NextUrl]_vars

\* ----------------------------------------------- CoreEagerDatabaseTable
\* The mirror after each method's code that follows `await super.method(...)`;
\* ok tells whether the awaited store write resolved: a rejection leaves the
\* method at the await.
\* insert leaving the mirror to the next initialize.
insertMirrorSkipped(ok, mirror, record) == mirror

\* insert patching the mirror before the store has answered.
insertMirrorFirst(ok, mirror, record) ==
    [mirror EXCEPT ![serializePrimaryKey(getPrimaryKeyFromRecord(record))] = record]

insertMirror(ok, mirror, record) ==
    IF ok
    THEN [mirror EXCEPT ![serializePrimaryKey(getPrimaryKeyFromRecord(record))] = record]
    ELSE mirror

\* update patching every cached record, whatever the conditions.
updateMirrorUnconditional(ok, mirror, updates, conditions) ==
    IF ok
    THEN [k \in SerializedKeys |->
            IF mirror[k] = NoRecord THEN NoRecord ELSE Assign(mirror[k], updates)]
    ELSE mirror

updateMirror(ok, mirror, updates, conditions) ==
    IF ok
    THEN [k \in SerializedKeys |->
            IF mirror[k] = NoRecord THEN NoRecord
            ELSE IF conditions.given /\ ~recordMatches(mirror[k], conditions) THEN mirror[k]
            ELSE Assign(mirror[k], updates)]
    ELSE mirror

updateWhereMirror(ok, mirror, updates, predicate) ==
    IF ok
    THEN [k \in SerializedKeys |->
            IF mirror[k] = NoRecord THEN NoRecord
            ELSE IF ~Js(predicate, mirror[k]) THEN mirror[k]
            ELSE Assign(mirror[k], updates)]
    ELSE mirror

\* delete patching the mirror before the store has answered.
deleteMirrorFirst(ok, mirror, conditions) ==
    IF ~conditions.given THEN [k \in SerializedKeys |-> NoRecord]
    ELSE [k \in SerializedKeys |->
            IF mirror[k] # NoRecord /\ recordMatches(mirror[k], conditions)
            THEN NoRecord ELSE mirror[k]]

deleteMirror(ok, mirror, conditions) ==
    IF ~ok THEN mirror
    ELSE IF ~conditions.given THEN [k \in SerializedKeys |-> NoRecord]
    ELSE [k \in SerializedKeys |->
            IF mirror[k] # NoRecord /\ recordMatches(mirror[k], conditions)
            THEN NoRecord ELSE mirror[k]]

deleteByPrimaryKeyMirror(ok, mirror, primaryKey) ==
    IF ok THEN [mirror EXCEPT ![serializePrimaryKey(primaryKey)] = NoRecord] ELSE mirror

\* The outcome of a call, for the history.
Outcome(ok, error, value) ==
    [status |-> IF ok THEN "resolved" ELSE "rejected",
     error |-> IF ok THEN "" ELSE error, value |-> value]
Called(name, outcome) ==
    [NoLast EXCEPT !.op = name, !.status = outcome.status, !.error = outcome.error,
                   !.value = outcome.value,
                   !.before = [rows |-> rows, records |-> records]]
\* The store write a method awaits: the primary key is checked first, and a
\* write it allows may still fail in the store.
Write(result, fails) ==
    IF ~result.ok THEN [ok |-> FALSE, table |-> result.table, error |-> "UniquenessViolation"]
    ELSE IF fails THEN [ok |-> FALSE, table |-> rows, error |-> "StoreError"]
    ELSE [ok |-> TRUE, table |-> result.table, error |-> ""]

\* The record of a key in the mirror, or the error of findByPrimaryKey.
findByPrimaryKeyOutcome(mirror, primaryKey) ==
    LET record == mirror[serializePrimaryKey(primaryKey)]
    IN IF record = NoRecord
       THEN Outcome(FALSE, "No records found.", {})
       ELSE Outcome(TRUE, "", {record})

\* initialize(): the records of the table are loaded.
initialize ==
    /\ ~initialized
    /\ initialized' = TRUE
    /\ records' = [k \in SerializedKeys |->
                     IF \E x \in rows : serializePrimaryKey(getPrimaryKeyFromRecord(x)) = k
                     THEN CHOOSE x \in rows : serializePrimaryKey(getPrimaryKeyFromRecord(x)) = k
                     ELSE NoRecord]
    /\ last' = Called("initialize", Outcome(TRUE, "", {}))
    /\ UNCHANGED <<rows, inserted, writes, sitesVars, toursVars>>

all(conditions) ==
    /\ initialized
    /\ last' = [Called("all", Outcome(TRUE, "",
                   IF conditions.given
                   THEN {x \in Values(records) : recordMatches(x, conditions)}
                   ELSE Values(records)))
                 EXCEPT !.conditions = conditions,
                        !.list = IF conditions.given
                                 THEN Filter(ObjectValues(records), conditions)
                                 ELSE ObjectValues(records)]
    /\ UNCHANGED <<rows, records, initialized, inserted, writes, sitesVars, toursVars>>

\* find: the first matching record of Object.values, whose order is the
\* order of the keys of this.records.
find(conditions) ==
    /\ initialized
    /\ conditions.given
    /\ LET found == {x \in Values(records) : recordMatches(x, conditions)}
       IN IF found = {}
          THEN last' = [Called("find", Outcome(FALSE, "No records found.", {}))
                          EXCEPT !.conditions = conditions]
          ELSE \E x \in found :
                  last' = [Called("find", Outcome(TRUE, "", {x}))
                             EXCEPT !.conditions = conditions]
    /\ UNCHANGED <<rows, records, initialized, inserted, writes, sitesVars, toursVars>>

findByPrimaryKey(primaryKey) ==
    /\ initialized
    /\ last' = [Called("findByPrimaryKey", findByPrimaryKeyOutcome(records, primaryKey))
                  EXCEPT !.primaryKey = primaryKey]
    /\ UNCHANGED <<rows, records, initialized, inserted, writes, sitesVars, toursVars>>

\* Fault: reduce folding every cached record, whatever the conditions.
RECURSIVE reduceFoldUnfiltered(_, _, _, _)
reduceFoldUnfiltered(reducer, predicate, result, array) ==
    IF array = <<>> THEN result
    ELSE reduceFoldUnfiltered(reducer, predicate,
                              ReducerJs(reducer, result, Head(array)), Tail(array))

\* Array.prototype.reduce with the callback of reduce over the array's
\* elements from the left.
RECURSIVE reduceFold(_, _, _, _)
reduceFold(reducer, predicate, result, array) ==
    IF array = <<>> THEN result
    ELSE reduceFold(reducer, predicate,
                    IF predicate = NoPredicate \/ Js(predicate, Head(array))
                    THEN ReducerJs(reducer, result, Head(array)) ELSE result,
                    Tail(array))

reduce(reducer, predicate) ==
    /\ initialized
    /\ last' = [Called("reduce", Outcome(TRUE, "", {}))
                  EXCEPT !.reducer = reducer, !.predicate = predicate,
                         !.result = reduceFold(reducer, predicate, JsInitialValue(reducer),
                                               ObjectValues(records))]
    /\ UNCHANGED <<rows, records, initialized, inserted, writes, sitesVars, toursVars>>

insert(record, fails) ==
    /\ initialized
    /\ LET w == Write(StoreInsert(rows, record), fails)
       IN /\ rows' = w.table
          /\ inserted' = InsertedAfter(inserted, rows, w.table)
          /\ records' = insertMirror(w.ok, records, record)
          /\ last' = [Called("insert", Outcome(w.ok, w.error, {}))
                        EXCEPT !.write = IF w.ok THEN "resolved" ELSE "rejected", !.record = record]
    /\ UNCHANGED <<initialized, writes, sitesVars, toursVars>>

update(updates, conditions, fails) ==
    /\ initialized
    /\ LET w == Write(StoreUpdate(rows, updates, Matching(rows, conditions)), fails)
       IN /\ rows' = w.table
          /\ inserted' = InsertedAfter(inserted, rows, w.table)
          /\ records' = updateMirror(w.ok, records, updates, conditions)
          /\ last' = [Called("update", Outcome(w.ok, w.error, {}))
                        EXCEPT !.write = IF w.ok THEN "resolved" ELSE "rejected", !.updates = updates, !.conditions = conditions]
    /\ UNCHANGED <<initialized, writes, sitesVars, toursVars>>

updateWhere(updates, predicate, fails) ==
    /\ initialized
    /\ LET w == Write(StoreUpdate(rows, updates, MatchingJs(rows, predicate)), fails)
       IN /\ rows' = w.table
          /\ inserted' = InsertedAfter(inserted, rows, w.table)
          /\ records' = updateWhereMirror(w.ok, records, updates, predicate)
          /\ last' = [Called("updateWhere", Outcome(w.ok, w.error, {}))
                        EXCEPT !.write = IF w.ok THEN "resolved" ELSE "rejected", !.updates = updates, !.predicate = predicate]
    /\ UNCHANGED <<initialized, writes, sitesVars, toursVars>>

delete(conditions, fails) ==
    /\ initialized
    /\ LET w == Write(StoreDelete(rows, Matching(rows, conditions)), fails)
       IN /\ rows' = w.table
          /\ inserted' = InsertedAfter(inserted, rows, w.table)
          /\ records' = deleteMirror(w.ok, records, conditions)
          /\ last' = [Called("delete", Outcome(w.ok, w.error, {}))
                        EXCEPT !.write = IF w.ok THEN "resolved" ELSE "rejected", !.conditions = conditions]
    /\ UNCHANGED <<initialized, writes, sitesVars, toursVars>>

deleteByPrimaryKey(primaryKey, fails) ==
    /\ initialized
    /\ LET w == Write(StoreDelete(rows, {x \in rows : x.id = primaryKey}), fails)
       IN /\ rows' = w.table
          /\ inserted' = InsertedAfter(inserted, rows, w.table)
          /\ records' = deleteByPrimaryKeyMirror(w.ok, records, primaryKey)
          /\ last' = [Called("deleteByPrimaryKey", Outcome(w.ok, w.error, {}))
                        EXCEPT !.write = IF w.ok THEN "resolved" ELSE "rejected", !.primaryKey = primaryKey]
    /\ UNCHANGED <<initialized, writes, sitesVars, toursVars>>

\* A table constructed over a store table with any rows; the sites registry
\* is not called.
InitTable ==
    /\ InitWith(0, 0)
    /\ rows \in {table \in SUBSET DBRecord : Unique(table)}
    /\ records = [k \in SerializedKeys |-> NoRecord]
    /\ initialized = FALSE
    /\ inserted = SelectSeq([i \in 1..MaxKey |-> i], LAMBDA id : \E x \in rows : x.id = id)
    /\ writes = NoWrites
    /\ last = NoLast

NextTable ==
    \/ initialize
    \/ \E conditions \in Conditions : all(conditions) \/ find(conditions)
    \/ \E primaryKey \in Ids : findByPrimaryKey(primaryKey)
    \/ \E reducer \in Reducers, predicate \in Predicates \cup {NoPredicate} :
          reduce(reducer, predicate)
    \/ \E record \in DBRecord, fails \in BOOLEAN : insert(record, fails)
    \/ \E updates \in PartialDBRecord, conditions \in Conditions, fails \in BOOLEAN :
          update(updates, conditions, fails)
    \/ \E updates \in PartialDBRecord, predicate \in Predicates, fails \in BOOLEAN :
          updateWhere(updates, predicate, fails)
    \/ \E conditions \in Conditions, fails \in BOOLEAN : delete(conditions, fails)
    \/ \E primaryKey \in Ids, fails \in BOOLEAN : deleteByPrimaryKey(primaryKey, fails)

SpecTable == InitTable /\ [][NextTable]_vars

\* ------------------------------------ the table under overlapping tasks
\* A write is three steps: the method calls super.<method>, which hands the
\* statement to the store; the store executes the statements in the order it
\* received them; the method resumes after its await, patches the mirror and
\* resolves, or is left by the rejection.  The reads have no await: they are
\* the steps all, find, findByPrimaryKey and reduce above.
TaskWrites ==
    {[NoWrite EXCEPT !.op = "insert", !.record = r, !.st = "issued"] :
        r \in {x \in DBRecord : x.name = "a"}}
    \cup {[NoWrite EXCEPT !.op = "update", !.updates = [id |-> NoId, name |-> "b"],
                          !.conditions = [given |-> TRUE, id |-> NoId, name |-> "a"],
                          !.st = "issued"],
          [NoWrite EXCEPT !.op = "updateWhere", !.updates = [id |-> 2, name |-> NoName],
                          !.predicate = "nameIsA", !.st = "issued"],
          [NoWrite EXCEPT !.op = "delete", !.st = "issued"],
          [NoWrite EXCEPT !.op = "deleteByPrimaryKey", !.primaryKey = 1, !.st = "issued"]}

\* The statement of a write, executed by the store.
StoreRun(w, table) ==
    IF w.op = "insert" THEN StoreInsert(table, w.record)
    ELSE IF w.op = "update" THEN StoreUpdate(table, w.updates, Matching(table, w.conditions))
    ELSE IF w.op = "updateWhere"
         THEN StoreUpdate(table, w.updates, MatchingJs(table, w.predicate))
    ELSE IF w.op = "delete" THEN StoreDelete(table, Matching(table, w.conditions))
    ELSE StoreDelete(table, {x \in table : x.id = w.primaryKey})

\* The code of a write after its await.
MirrorAfter(w, mirror) ==
    IF w.op = "insert" THEN insertMirror(w.ok, mirror, w.record)
    ELSE IF w.op = "update" THEN updateMirror(w.ok, mirror, w.updates, w.conditions)
    ELSE IF w.op = "updateWhere"
         THEN updateWhereMirror(w.ok, mirror, w.updates, w.predicate)
    ELSE IF w.op = "delete" THEN deleteMirror(w.ok, mirror, w.conditions)
    ELSE deleteByPrimaryKeyMirror(w.ok, mirror, w.primaryKey)

\* A task calls a write method: the statement is handed to the store.
WriteCall(w) ==
    /\ initialized
    /\ writes.left > 0
    /\ Len(writes.pending) < MaxPending
    /\ writes' = [writes EXCEPT !.pending = Append(@, w), !.left = @ - 1,
                                !.rekeyed = @ \/ w.updates.id # NoId]
    /\ UNCHANGED <<rows, records, initialized, inserted, last, sitesVars, toursVars>>

\* The store executes the oldest statement it has not executed.
WriteStored(fails) ==
    \E i \in 1..Len(writes.pending) :
        /\ writes.pending[i].st = "issued"
        /\ \A j \in 1..(i - 1) : writes.pending[j].st = "stored"
        /\ LET w == Write(StoreRun(writes.pending[i], rows), fails)
           IN /\ rows' = w.table
              /\ inserted' = InsertedAfter(inserted, rows, w.table)
              /\ writes' = [writes EXCEPT !.pending[i].st = "stored",
                                          !.pending[i].ok = w.ok,
                                          !.pending[i].error = w.error]
        /\ UNCHANGED <<records, initialized, last, sitesVars, toursVars>>

\* The oldest write resumes after its await: the promises of the store
\* settle in the order of its statements.
WriteResumed ==
    /\ writes.pending # <<>>
    /\ Head(writes.pending).st = "stored"
    /\ LET w == Head(writes.pending)
       IN /\ records' = MirrorAfter(w, records)
          /\ writes' = [writes EXCEPT !.pending = Tail(@), !.settled = w,
                                      !.table = IF w.ok THEN StoreRun(w, @).table ELSE @]
          /\ last' = [Called(w.op, Outcome(w.ok, w.error, {}))
                        EXCEPT !.write = IF w.ok THEN "resolved" ELSE "rejected",
                               !.record = w.record, !.updates = w.updates,
                               !.conditions = w.conditions, !.predicate = w.predicate,
                               !.primaryKey = w.primaryKey]
    /\ UNCHANGED <<rows, initialized, inserted, sitesVars, toursVars>>

InitTableTasks ==
    /\ InitWith(0, 0)
    /\ rows \in {table \in SUBSET DBRecord : Unique(table)}
    /\ records = [k \in SerializedKeys |-> NoRecord]
    /\ initialized = FALSE
    /\ inserted = SelectSeq([i \in 1..MaxKey |-> i], LAMBDA id : \E x \in rows : x.id = id)
    /\ writes = [NoWrites EXCEPT !.left = MaxWrites, !.table = rows]
    /\ last = NoLast

NextTableTasks ==
    \/ initialize
    \/ \E w \in TaskWrites : WriteCall(w)
    \/ \E fails \in BOOLEAN : WriteStored(fails)
    \/ WriteResumed
    \/ all(NoConditions)
    \/ \E name \in ColNames : find([given |-> TRUE, id |-> NoId, name |-> name])
    \/ \E primaryKey \in Ids : findByPrimaryKey(primaryKey)
    \/ reduce("ids", NoPredicate)

SpecTableTasks == InitTableTasks /\ [][NextTableTasks]_vars

\* ------------------------------------------------- CoreUserToursService
\* Fault: show presenting the tour whatever the queue holds.
showWaitsNever(queue) == FALSE
\* `this.tours.length > 1` after the push: the tour waits for its turn.
showWaits(queue) == Len(queue) > 1

\* Rejections of present() and dismiss() of the components so far.
TourFailures ==
    Cardinality({t \in Tours : userTour[t].present = "failed"})
    + Cardinality({t \in Tours : userTour[t].dismiss = "failed"})

\* show(options) is called: CoreUtils.wait(delay ?? 200) is awaited.
ShowCall(t) ==
    /\ userTour[t].show = "idle"
    /\ \A u \in Tours : u < t => userTour[u].show # "idle"
    /\ userTour' = [userTour EXCEPT ![t].show = "wait"]
    /\ UNCHANGED <<tours, tourReadyCallbacks, dismissals, shown, sitesVars, tableVars>>

\* The delay has passed: attachViewToDom is awaited.
ShowWaited(t) ==
    /\ userTour[t].show = "wait"
    /\ userTour' = [userTour EXCEPT ![t].show = "attach"]
    /\ UNCHANGED <<tours, tourReadyCallbacks, dismissals, shown, sitesVars, tableVars>>

\* The component is attached: the tour is pushed; behind another tour it
\* waits for its callback, otherwise tour.present() is called and awaited.
ShowAttached(t) ==
    /\ userTour[t].show = "attach"
    /\ tours' = Append(tours, t)
    /\ IF showWaits(tours')
       THEN /\ tourReadyCallbacks' = tourReadyCallbacks \cup {t}
            /\ userTour' = [userTour EXCEPT ![t].show = "queued"]
            /\ shown' = [shown EXCEPT !.queued = Append(@, t)]
       ELSE /\ userTour' = [userTour EXCEPT ![t].show = "present", ![t].present = "called"]
            /\ shown' = [shown EXCEPT !.queued = Append(@, t), !.presented = Append(@, t)]
            /\ UNCHANGED tourReadyCallbacks
    /\ UNCHANGED <<dismissals, sitesVars, tableVars>>

\* present() of a component settles; a show call awaiting it settles with it.
TourPresented(t, ok) ==
    /\ userTour[t].present = "called"
    /\ ~ok => TourFailures < MaxFail
    /\ userTour' = [userTour EXCEPT
                       ![t].present = IF ok THEN "done" ELSE "failed",
                       ![t].show = IF @ = "present"
                                   THEN (IF ok THEN "resolved" ELSE "rejected") ELSE @]
    /\ UNCHANGED <<tours, tourReadyCallbacks, dismissals, shown, sitesVars, tableVars>>

\* dismiss() of a component settles.
TourDismissed(t, ok) ==
    /\ userTour[t].dismiss = "called"
    /\ ~ok => TourFailures < MaxFail
    /\ userTour' = [userTour EXCEPT ![t].dismiss = IF ok THEN "done" ELSE "failed"]
    /\ UNCHANGED <<tours, tourReadyCallbacks, dismissals, shown, sitesVars, tableVars>>

\* dismiss(acknowledge) is called: nothing with no tour; otherwise the active
\* tour is shifted, its dismiss() and present() of the next tour are called.
DismissCall(d) ==
    /\ dismissals[d].pc = "idle"
    /\ \A e \in 1..MaxDismiss : e < d => dismissals[e].pc # "idle"
    /\ IF Len(tours) = 0
       THEN /\ dismissals' = [dismissals EXCEPT ![d].pc = "resolved"]
            /\ UNCHANGED <<tours, userTour, shown>>
       ELSE LET activeTour == Head(tours)
                nextTour == IF Len(tours) > 1 THEN tours[2] ELSE NoTour
            IN /\ tours' = Tail(tours)
               /\ dismissals' = [dismissals EXCEPT
                                    ![d] = [pc |-> "all", activeTour |-> activeTour,
                                            nextTour |-> nextTour]]
               /\ userTour' = [t \in Tours |->
                                 IF t = activeTour THEN [userTour[t] EXCEPT !.dismiss = "called"]
                                 ELSE IF t = nextTour
                                      THEN [userTour[t] EXCEPT !.present = "called"]
                                 ELSE userTour[t]]
               /\ shown' = IF nextTour = NoTour THEN shown
                           ELSE [shown EXCEPT !.presented = Append(@, nextTour)]
    /\ UNCHANGED <<tourReadyCallbacks, sitesVars, tableVars>>

\* Promise.all of dismiss: rejected with the first rejection, resolved when
\* both calls have resolved, pending otherwise.
dismissAll(d) ==
    LET a == userTour[dismissals[d].activeTour].dismiss
        n == IF dismissals[d].nextTour = NoTour THEN "done"
             ELSE userTour[dismissals[d].nextTour].present
    IN IF a = "failed" \/ n = "failed" THEN "rejected"
       ELSE IF a = "done" /\ n = "done" THEN "resolved"
       ELSE "pending"

\* dismiss after its await: the callback of the next tour is called, which
\* resolves the show call of that tour; a rejection passes it by.
DismissSettled(d) ==
    /\ dismissals[d].pc = "all"
    /\ dismissAll(d) # "pending"
    /\ dismissals' = [dismissals EXCEPT ![d].pc = dismissAll(d)]
    /\ userTour' =
          IF dismissAll(d) = "resolved" /\ dismissals[d].nextTour \in tourReadyCallbacks
          THEN [userTour EXCEPT ![dismissals[d].nextTour].show = "resolved"]
          ELSE userTour
    /\ UNCHANGED <<tours, tourReadyCallbacks, shown, sitesVars, tableVars>>

InitTours == InitWith(0, 0) /\ TableUnused
NextTours ==
    \/ \E t \in Tours : ShowCall(t) \/ ShowWaited(t) \/ ShowAttached(t)
    \/ \E t \in Tours, ok \in BOOLEAN : TourPresented(t, ok) \/ TourDismissed(t, ok)
    \/ \E d \in 1..MaxDismiss : DismissCall(d) \/ DismissSettled(d)

SpecTours == InitTours /\ [][NextTours]_vars

\* =============================================================== claims
\* The migration a site object was constructed behind has resolved.
MigratedBy(site, w) ==
    w # NoCaller /\ op[w].sid = site.id /\ op[w].st = "final" /\ op[w].res = "ok"

\* C1: a site that getSite loaded from the sites table is resolved to the
\* caller, and is in this.sites, only when migrateSiteSchemas for it has
\* completed successfully; after a failed migration it is not in this.sites.
C1_MigratedBeforeExposed ==
    /\ \A c \in Getters :
          task[c].pc = "gsOK" /\ task[c].site.by \in Getters
             => MigratedBy(task[c].site, task[task[c].site.by].waitOn)
    /\ \A s \in Sites :
          sites[s].by \in Getters => MigratedBy(sites[s], task[sites[s].by].waitOn)
    /\ \A c \in Getters :
          task[c].waitOn # NoCaller /\ op[task[c].waitOn].res = "fail"
             => task[c].pc # "gsOK" /\ sites[task[c].sid] # task[c].site

C1_Witness ==
    \E c \in GetIds :
       /\ task[c].pc = "gsOK" /\ task[c].site = Site(task[c].sid, c)
       /\ sites[task[c].sid] = task[c].site
       /\ applied[task[c].sid][CORE] = CoreVersion

\* C2: the candidate site of newSite for an id that is not known is stored in
\* this.sites, made current and persisted only after migrateSiteSchemas for it
\* has completed successfully; when the migration fails it is none of these.
C2_NewSiteMigratedFirst ==
    /\ \A s \in Sites :
          sites[s].by \in NewIds => MigratedBy(sites[s], new[sites[s].by].waitOn)
    /\ currentSite.by \in NewIds => MigratedBy(currentSite, new[currentSite.by].waitOn)
    /\ \A s \in addPending \cup (sitesTable \ StoredAtStart) :
          \E c \in NewIds :
             /\ new[c].sid = s /\ new[c].pc = "resolved"
             /\ new[c].isNewSite => MigratedBy(new[c].candidateSite, new[c].waitOn)
    /\ \A c \in NewIds :
          new[c].waitOn # NoCaller /\ op[new[c].waitOn].res = "fail"
             => /\ new[c].pc \in {"migrate", "rejected"}
                /\ sites[new[c].sid] # new[c].candidateSite
                /\ currentSite # new[c].candidateSite

C2_Witness ==
    \E c \in NewIds :
       /\ new[c].pc = "resolved" /\ new[c].isNewSite
       /\ new[c].sid \notin StoredAtStart
       /\ sites[new[c].sid] = Site(new[c].sid, c)
       /\ currentSite = Site(new[c].sid, c)
       /\ new[c].sid \in sitesTable

\* The promise of migrateSiteSchemas created by c has not settled, or its
\* finally callback has not run yet.
InFlightMigration(c) == op[c].st \in {"base", "baseFail", "apply"}

\* The promise a call is waiting for, NoCaller when it waits for none.
Awaited(c) ==
    IF c \in Getters THEN (IF task[c].pc = "makeSite" THEN task[c].waitOn ELSE NoCaller)
    ELSE (IF new[c].pc = "migrate" THEN new[c].waitOn ELSE NoCaller)
SidOf(c) == IF c \in Getters THEN task[c].sid ELSE new[c].sid

\* C3: while a migration of a site is in flight, every migrateSiteSchemas call
\* for that site gets the promise of that migration: a site never has two
\* migrations in flight, so no schema is applied by two of them at once.
C3_OneMigrationPerSite ==
    /\ \A c, d \in Migrators :
          InFlightMigration(c) /\ InFlightMigration(d) /\ op[c].sid = op[d].sid => c = d
    /\ \A c \in Migrators :
          InFlightMigration(c) => siteSchemasMigration[op[c].sid] = c
    /\ \A c \in Migrators :
          Awaited(c) # NoCaller /\ InFlightMigration(Awaited(c))
             => /\ op[Awaited(c)].sid = SidOf(c)
                /\ siteSchemasMigration[SidOf(c)] = Awaited(c)

C3_Witness ==
    \E c, d \in Migrators :
       /\ c # d /\ Awaited(c) = c /\ Awaited(d) = c
       /\ pass[c].phase = "run" /\ InFlightMigration(c)
       /\ \A e \in PassOwners \ {c} : pass[e].phase = "none"

\* An applySiteSchema call that has been started (not skipped).
Started(app) == app.st \in {"tables", "migrate", "record", "done", "failed"}
NoErr(p) == \A n \in Names : ~p.apps[n].err

\* C4: once a schema has been applied to a site at version V, the site's
\* schema_versions table holds V under the schema's own name.
C4_RecordedUnderSchemaName ==
    \A s \in Sites, n \in Names :
       applied[s][n] > 0 => db[s].versions[n] = applied[s][n]

\* C5: a schema whose version is not above the version already applied to the
\* site when the versions are read is skipped: no createTablesFromSchema, no
\* migrate callback and no version record for it.
C5_AppliedVersionSkipped ==
    \A c \in PassOwners, n \in Names :
       Started(pass[c].apps[n]) => pass[c].apps[n].sch.version > pass[c].apps[n].prev

\* C6: when a schema already applied at version P is applied at a higher
\* version, its migrate callback is invoked with oldVersion P, and the
\* recorded version ends at the new version.
C6_MigrateFromRecordedVersion ==
    \A c \in PassOwners, n \in Names :
       LET app == pass[c].apps[n]
       IN Started(app) /\ app.prev > 0 /\ app.sch.version > app.prev
             => /\ app.old = app.prev
                /\ app.st = "done" => db[pass[c].sid].versions[n] >= app.sch.version

\* C7: when createTablesFromSchema or the migrate callback of a schema
\* rejects, applySiteSchema writes no version record, and the promise of
\* migrateSiteSchemas, getSite, newSite or registerSiteSchema that awaits the
\* application does not resolve.
C7_FailureNotRecorded ==
    /\ \A c \in PassOwners, n \in Names :
          pass[c].apps[n].err => pass[c].apps[n].st = "failed" /\ ~pass[c].apps[n].wrote
    /\ \A c \in Migrators : op[c].res = "ok" => NoErr(pass[c])
    /\ \A c \in Getters :
          task[c].pc = "gsOK" /\ task[c].waitOn # NoCaller => NoErr(pass[task[c].waitOn])
    /\ \A c \in NewIds :
          new[c].pc \in {"getConfig", "resolved"} /\ new[c].waitOn # NoCaller
             => NoErr(pass[new[c].waitOn])
    /\ \A r \in 1..MaxReg, s \in Sites :
          reg[r].pc = "resolved" /\ s \in reg[r].siteIds
             => /\ NoErr(pass[<<"reg", r, s>>])
                /\ task[<<"rgs", r, s>>].waitOn # NoCaller
                      => NoErr(pass[task[<<"rgs", r, s>>].waitOn])

C7_Witness ==
    \E c \in GetIds, n \in Names :
       /\ task[c].pc = "gsFail" /\ task[c].waitOn = c
       /\ pass[c].apps[n].err /\ pass[c].apps[n].st = "failed"
       /\ db[task[c].sid].versions = [m \in RecNames |-> IF m = WindowName THEN CoreVersion ELSE 0]

\* C8: when the promise of migrateSiteSchemas has settled, also with a
\* rejection, the site has no entry in this.siteSchemasMigration; the next
\* call starts a new migration, which applies the schema that failed again,
\* with the same oldVersion.
C8_RetryAfterFailure ==
    /\ \A s \in Sites :
          siteSchemasMigration[s] # NoCaller => InFlightMigration(siteSchemasMigration[s])
    /\ \A d \in Migrators, n \in Names :
          \A c \in op[d].prior :
             /\ pass[c].apps[n].err /\ pass[d].phase = "run"
             /\ pass[d].apps[n].sch = pass[c].apps[n].sch
             => Started(pass[d].apps[n]) /\ pass[d].apps[n].old = pass[c].apps[n].old

C8_Witness ==
    \E d \in Migrators, n \in Names :
       \E c \in op[d].prior :
          /\ pass[c].apps[n].err /\ siteSchemasMigration[op[d].sid] = d
          /\ pass[d].apps[n].st = "done" /\ pass[d].apps[n].old = pass[c].apps[n].old

\* registerSiteSchema r was called with a current site: it applies the schema
\* at once, to the sites of reg[r].siteIds.
Immediate(r) == reg[r].pc \in {"resolved", "rejected"} /\ reg[r].siteIds # {}

\* Every applySiteSchema call of the pass has settled.
AppsSettled(p) ==
    p.phase = "run" /\ \A n \in Names : p.apps[n].st \in {"none", "skip", "done", "failed"}

\* The application of r's schema to site s has settled: getSite has rejected,
\* or applySiteSchemas has no call in flight.
SubSettled(r, s) ==
    task[<<"rgs", r, s>>].pc = "gsFail" \/ AppsSettled(pass[<<"reg", r, s>>])

\* The sites registerSiteSchema r applies its schema to.
Targets(r) ==
    IF reg[r].schema.onlyCurrentSite THEN reg[r].siteIds = {reg[r].schema.siteId}
    ELSE \A s \in reg[r].siteIds : task[<<"rgs", r, s>>].pc # "idle"

\* C9, as the specification states it: the promise of registerSiteSchema
\* called with a current site settles only when the application to every
\* site has settled.
C9_SettlesAfterAllSettled ==
    \A r \in 1..MaxReg :
       Immediate(r) => Targets(r) /\ \A s \in reg[r].siteIds : SubSettled(r, s)

\* C9, amended: the promise of registerSiteSchema called with a current site
\* resolves only when the application to every site has resolved; it rejects
\* when one application has rejected, whatever the state of the others.
C9_ResolvesAfterAllResolved ==
    \A r \in 1..MaxReg :
       /\ Immediate(r) => Targets(r)
       /\ Immediate(r) /\ reg[r].pc = "resolved"
             => \A s \in reg[r].siteIds :
                   /\ SubResolved(r, s) /\ AppsSettled(pass[<<"reg", r, s>>])
                   /\ pass[<<"reg", r, s>>].apps[reg[r].schema.name].sch = reg[r].schema
       /\ Immediate(r) /\ reg[r].pc = "rejected"
             => \E s \in reg[r].siteIds : SubRejected(r, s)

C9_Witness ==
    \E r \in 1..MaxReg :
       /\ reg[r].pc = "resolved" /\ reg[r].siteIds = Sites
       /\ \A s \in Sites : pass[<<"reg", r, s>>].apps[FOO].st = "done"
       /\ siteSchemas[FOO] = reg[r].schema

\* registerSiteSchema r was called without a current site, for all sites.
Deferred(r) ==
    reg[r].pc = "resolved" /\ reg[r].siteIds = {} /\ ~reg[r].schema.onlyCurrentSite

\* The step of registerSiteSchema r called without a current site for a
\* schema of all sites.
DeferredStep(r) ==
    /\ reg[r].pc = "idle" /\ reg'[r].pc = "resolved"
    /\ currentSite = NoSite /\ ~reg'[r].schema.onlyCurrentSite

\* C10: registerSiteSchema without a current site, for a schema of all sites,
\* reads and writes no site database and stores the schema in the registry;
\* a migration created afterwards applies the schema it reads from the registry.
C10_DeferredRegistration ==
    /\ [][\A r \in 1..MaxReg :
             DeferredStep(r)
                => /\ siteSchemas'[reg'[r].schema.name] = reg'[r].schema
                   /\ UNCHANGED <<dbVars, pass, task, op, appVars>>]_vars
    /\ [](\A r \in 1..MaxReg, c \in Migrators :
             Deferred(r) /\ reg[r].schema \in op[c].known /\ op[c].res = "ok"
                => LET app == pass[c].apps[reg[r].schema.name]
                   IN /\ app.sch # NoSchema
                      /\ app.sch = reg[r].schema => app.st = "done")

C10_Witness ==
    \E r \in 1..MaxReg, c \in Migrators :
       /\ Deferred(r) /\ reg[r].schema \in op[c].known /\ op[c].res = "ok"
       /\ pass[c].apps[FOO].sch = reg[r].schema /\ pass[c].apps[FOO].st = "done"
       /\ FOO \in db[op[c].sid].tables

\* An applySiteSchema call of the pass is between its first store call and
\* its version record.
Applying(p) == \E n \in Names : p.apps[n].st \in {"tables", "migrate", "record"}

\* C11: two registerSiteSchema calls never have the create-tables, migrate,
\* record-version steps of their schemas in progress on one site at one time.
C11_RegistrationsSerialized ==
    \A r, q \in 1..MaxReg, s \in Sites :
       r # q => ~(Applying(pass[<<"reg", r, s>>]) /\ Applying(pass[<<"reg", q, s>>]))

\* Nothing is in flight and nothing has failed.
Quiescent ==
    /\ \A c \in Getters : task[c].pc \in {"idle", "gsOK"}
    /\ \A c \in Migrators : op[c].st = "none" \/ (op[c].st = "final" /\ op[c].res = "ok")
    /\ \A c \in PassOwners : pass[c].phase = "none" \/ PassResolved(pass[c])
    /\ \A c \in NewIds : new[c].pc \in {"idle", "resolved"}
    /\ \A r \in 1..MaxReg : reg[r].pc \in {"idle", "resolved"}
    /\ addPending = {} /\ loginPending = {}

\* The sites the registry exposes.
Exposed == {s \in Sites : sites[s] # NoSite \/ (currentSite # NoSite /\ currentSite.id = s)}

\* C12: in a quiescent state every exposed site has, for every registered
\* schema that applies to it, that schema's version recorded under its name.
C12_QuiescentComplete ==
    Quiescent =>
       \A s \in Exposed, n \in Names :
          siteSchemas[n] # NoSchema /\ siteSchemas[n].siteId \in {"", s}
             => db[s].versions[n] = siteSchemas[n].version

\* The version the schema_versions table of site s holds for the schema
\* named n: the row applySiteSchema writes for it.
RecordedVersion(s, n) == db[s].versions[RecordName([NoSchema EXCEPT !.name = n])]

\* C13: for each site and schema name the recorded version never decreases.
C13_RecordedVersionMonotone ==
    [][\A s \in Sites, n \in Names : RecordedVersion(s, n)' >= RecordedVersion(s, n)]_vars


\* ------------------------------------------------- the table's claims
\* CoreLazyDatabaseTable over the same store table: every read is resolved
\* from the store.
LazyAll(table, conditions) == Matching(table, conditions)
LazyFind(table, conditions) ==
    IF Matching(table, conditions) = {}
    THEN {Outcome(FALSE, "No records found.", {})}
    ELSE {Outcome(TRUE, "", {x}) : x \in Matching(table, conditions)}
LazyFindByPrimaryKey(table, primaryKey) ==
    IF \E x \in table : x.id = primaryKey
    THEN Outcome(TRUE, "", {CHOOSE x \in table : x.id = primaryKey})
    ELSE Outcome(FALSE, "No records found.", {})

Reads == {"all", "find", "findByPrimaryKey"}
Writes == {"insert", "update", "updateWhere", "delete", "deleteByPrimaryKey"}
Resolved(name) == last.op = name /\ last.status = "resolved"
Rejected(name) == last.op = name /\ last.status = "rejected"
LastOutcome == [status |-> last.status, error |-> last.error, value |-> last.value]
\* The mirror holds the rows of the store, each under its serialized key.
MirrorOf(table) ==
    [k \in SerializedKeys |->
        IF \E x \in table : serializePrimaryKey(getPrimaryKeyFromRecord(x)) = k
        THEN CHOOSE x \in table : serializePrimaryKey(getPrimaryKeyFromRecord(x)) = k
        ELSE NoRecord]

\* C14: after every operation of an initialized Eager table its mirror holds
\* exactly the rows of the store, and every all, find and findByPrimaryKey
\* gives what the Lazy table gives over the same store.
C14_EagerRefinesLazy ==
    initialized =>
        /\ records = MirrorOf(rows)
        /\ last.op = "all" => last.value = LazyAll(rows, last.conditions)
        /\ last.op = "find" => LastOutcome \in LazyFind(rows, last.conditions)
        /\ last.op = "findByPrimaryKey" =>
              LastOutcome = LazyFindByPrimaryKey(rows, last.primaryKey)

\* C15: when the store write of insert, update, updateWhere, delete or
\* deleteByPrimaryKey rejects, the call rejects with the store's error and
\* the mirror is as it was before the call.
C15_RejectedWriteLeavesMirror ==
    last.write = "rejected" =>
        /\ last.op \in Writes
        /\ last.status = "rejected"
        /\ last.error \in {"UniquenessViolation", "StoreError"}
        /\ records = last.before.records

\* A delete whose store write rejected while the mirror held a matching record.
C15_Witness ==
    /\ Rejected("delete")
    /\ last.write = "rejected"
    /\ last.error = "StoreError"
    /\ \E x \in Values(last.before.records) :
          ~last.conditions.given \/ recordMatches(x, last.conditions)
    /\ records = last.before.records

\* C16: once insert(r) has resolved, findByPrimaryKey of r's primary key
\* resolves with a record equal to r.
C16_InsertedIsFound ==
    Resolved("insert") =>
        findByPrimaryKeyOutcome(records, getPrimaryKeyFromRecord(last.record))
            = Outcome(TRUE, "", {last.record})

\* An insert that resolved for a key the mirror did not hold.
C16_Witness ==
    /\ Resolved("insert")
    /\ last.before.records[serializePrimaryKey(getPrimaryKeyFromRecord(last.record))] = NoRecord
    /\ findByPrimaryKeyOutcome(records, last.record.id).value = {last.record}

\* C17: insert(r) while the table holds a row with r's primary key rejects
\* with the uniqueness violation, and leaves the rows of the store, their
\* number and the mirror as they were.
C17_DuplicateInsertRejected ==
    (last.op = "insert" /\ \E x \in last.before.rows : x.id = last.record.id) =>
        /\ last.status = "rejected"
        /\ last.error = "UniquenessViolation"
        /\ rows = last.before.rows
        /\ Cardinality(rows) = Cardinality(last.before.rows)
        /\ records = last.before.records

\* An insert of another record under the key of a row that store and mirror hold.
C17_Witness ==
    /\ Rejected("insert")
    /\ last.error = "UniquenessViolation"
    /\ \E x \in last.before.rows :
          /\ x.id = last.record.id
          /\ x # last.record
          /\ last.before.records[serializePrimaryKey(x.id)] = x
          /\ x \in rows
          /\ records[serializePrimaryKey(x.id)] = x

\* The columns of a record, and whether updates names one.
Columns == {"id", "name"}
Named(updates, column) == updates[column] # NoRecord[column]
\* The cached records an update or updateWhere addresses.
Addressed(record) ==
    IF last.op = "update"
    THEN ~last.conditions.given \/ recordMatches(record, last.conditions)
    ELSE Js(last.predicate, record)

\* C18: a resolved update or updateWhere overwrites, in every cached record
\* that matches, exactly the columns updates names, and leaves the other
\* columns, the records that do not match and the empty entries as they were.
C18_UpdatePatchesNamedColumns ==
    (Resolved("update") \/ Resolved("updateWhere")) =>
        \A k \in SerializedKeys :
            LET old == last.before.records[k]
            IN IF old = NoRecord \/ ~Addressed(old)
               THEN records[k] = old
               ELSE \A column \in Columns :
                       records[k][column] =
                           IF Named(last.updates, column)
                           THEN last.updates[column] ELSE old[column]

\* insert({id: 1, name: 'a'}), then update({name: 'b'}, {id: 1}), gives
\* findByPrimaryKey(1) = {id: 1, name: 'b'}, with another record cached.
C18_Witness ==
    /\ Resolved("update")
    /\ last.updates = [id |-> NoId, name |-> "b"]
    /\ last.conditions = [given |-> TRUE, id |-> 1, name |-> NoName]
    /\ last.before.records["1"] = [id |-> 1, name |-> "a"]
    /\ last.before.records["2"] = [id |-> 2, name |-> "a"]
    /\ findByPrimaryKeyOutcome(records, 1) = Outcome(TRUE, "", {[id |-> 1, name |-> "b"]})
    /\ records["2"] = [id |-> 2, name |-> "a"]

\* The rows a resolved delete or deleteByPrimaryKey addresses.
Deleted(record) ==
    IF last.op = "delete"
    THEN ~last.conditions.given \/ recordMatches(record, last.conditions)
    ELSE getPrimaryKeyFromRecord(record) = last.primaryKey

\* C19: a resolved delete() leaves no record (all() is empty, the store is
\* empty); a resolved delete(conditions) or deleteByPrimaryKey(key) removes
\* from the store and from the mirror exactly the records that match.
C19_DeleteRemovesMatching ==
    (Resolved("delete") \/ Resolved("deleteByPrimaryKey")) =>
        /\ rows = {x \in last.before.rows : ~Deleted(x)}
        /\ Values(records) = {x \in Values(last.before.records) : ~Deleted(x)}
        /\ (last.op = "delete" /\ ~last.conditions.given) =>
              Values(records) = {} /\ Cardinality(rows) = 0

\* The part of C19 that does not read the mirror by key: delete, with and
\* without conditions.
DeleteRemovesMatchingByValue ==
    Resolved("delete") => C19_DeleteRemovesMatching

\* C20: find and findByPrimaryKey reject with NotFound exactly when no row of
\* the table matches, resolve with a row that matches otherwise, and change
\* neither the table nor the mirror.
C20_FindOutcome ==
    /\ last.op = "find" =>
          /\ last.status = "rejected" <=> Matching(rows, last.conditions) = {}
          /\ last.status = "rejected" => last.error = "No records found."
          /\ last.status = "resolved" => last.value \subseteq Matching(rows, last.conditions)
    /\ last.op = "findByPrimaryKey" =>
          /\ last.status = "rejected" <=> ~\E x \in rows : x.id = last.primaryKey
          /\ last.status = "rejected" => last.error = "No records found."
          /\ last.status = "resolved" => \A x \in last.value : x \in rows /\ x.id = last.primaryKey
    /\ last.op \in {"find", "findByPrimaryKey"} =>
          rows = last.before.rows /\ records = last.before.records

\* The part of C20 that holds: the two reads change nothing.
ReadsChangeNothing ==
    last.op \in {"find", "findByPrimaryKey"} =>
        rows = last.before.rows /\ records = last.before.records

\* --------------------------------------------- the order of one application
\* The calls an application of a schema has behind it.
TablesCreated(s, n) == n \in db[s].tables /\ log[s][n].creates > 0
MigrateInvoked(s, n, app) ==
    \E i \in 1..Len(log[s][n].migs) : log[s][n].migs[i] = <<app.old, app.sch.version>>
StepsInOrder(s, n, app) ==
    /\ (app.st \in {"migrate", "record", "done"} /\ app.sch.tables) => TablesCreated(s, n)
    /\ (app.st \in {"record", "done"} /\ app.sch.migrate) => MigrateInvoked(s, n, app)
    /\ app.wrote => app.st = "done"
\* A step that writes schema_versions of site s is the completion of the
\* insertRecord of an application that has its other steps behind it.
RecordStep(s) ==
    \E c \in PassOwners, n \in Names :
        /\ pass[c].sid = s
        /\ pass[c].apps[n].st = "record"
        /\ pass'[c].apps[n].st = "done"
        /\ StepsInOrder(s, n, pass[c].apps[n])

\* C28: an application of a schema to a site creates the schema's tables,
\* then invokes its migrate callback, and writes the schema's version to
\* schema_versions only when both have resolved.
C28_AppliedInOrder ==
    /\ [](\A c \in PassOwners, n \in Names : StepsInOrder(pass[c].sid, n, pass[c].apps[n]))
    /\ [][\A s \in Sites : db'[s].versions # db[s].versions => RecordStep(s)]_vars

\* A schema with tables and a migrate callback whose version has been written.
C28_Witness ==
    \E c \in PassOwners, n \in Names :
        LET app == pass[c].apps[n]
        IN /\ app.st = "done" /\ app.wrote
           /\ app.sch.tables /\ app.sch.migrate
           /\ TablesCreated(pass[c].sid, n)
           /\ MigrateInvoked(pass[c].sid, n, app)
           /\ db[pass[c].sid].versions[RecordName(app.sch)] = app.sch.version

\* ------------------------------------------- schemas of the current site
\* C29: a schema registered with onlyCurrentSite while site X is current
\* carries X as its site: registerSiteSchema applies it to X alone, and no
\* application of it, by a registration or by a migrateSiteSchemas, is
\* started on another site.
C29_BoundToCurrentSite ==
    /\ \A r \in 1..MaxReg :
          (reg[r].pc # "idle" /\ reg[r].schema.onlyCurrentSite /\ reg[r].siteIds # {}) =>
              /\ reg[r].siteIds = {reg[r].schema.siteId}
              /\ \A s \in Sites \ {reg[r].schema.siteId} :
                    pass[<<"reg", r, s>>].phase = "none"
    /\ \A c \in PassOwners, n \in Names :
          (pass[c].apps[n].sch.onlyCurrentSite /\ Started(pass[c].apps[n])) =>
              pass[c].sid = pass[c].apps[n].sch.siteId

\* A schema bound to one site, applied to it, and passed over by the
\* migrateSiteSchemas of another site that read the registry afterwards.
C29_Witness ==
    \E r \in 1..MaxReg, c \in Migrators :
        LET schema == reg[r].schema
        IN /\ reg[r].pc = "resolved" /\ schema.onlyCurrentSite /\ schema.siteId # ""
           /\ pass[<<"reg", r, schema.siteId>>].apps[schema.name].st = "done"
           /\ pass[c].src = "registry" /\ pass[c].sid # schema.siteId
           /\ pass[c].apps[schema.name].sch = schema
           /\ pass[c].apps[schema.name].st = "skip"
           /\ pass[c].apps[schema.name].old < schema.version

\* A registerSiteSchema call that found no current site for a schema of the
\* current site, and the step that is this call.
Ignored(r) ==
    reg[r].pc = "resolved" /\ reg[r].schema.onlyCurrentSite /\ reg[r].schema.siteId = ""
IgnoredStep(r) == reg[r].pc = "idle" /\ Ignored(r)'
Unbound(schema) == schema.onlyCurrentSite /\ schema.siteId = ""

\* C30: registerSiteSchema of a schema with onlyCurrentSite, called without a
\* current site, changes neither the registry nor a site database and starts
\* nothing; the schema is in no registry and in no application afterwards.
C30_IgnoredWithoutCurrentSite ==
    /\ [][\A r \in 1..MaxReg :
            IgnoredStep(r) =>
                /\ siteSchemas' = siteSchemas
                /\ UNCHANGED <<dbVars, appVars, sites, currentSite, task, op, pass>>]_vars
    /\ [](\A n \in Names :
            /\ ~Unbound(siteSchemas[n])
            /\ \A c \in PassOwners : ~Unbound(pass[c].apps[n].sch))

\* The call has been ignored, and a site has been loaded with the schemas of
\* a registry that does not hold the schema.
C30_Witness ==
    \E r \in 1..MaxReg, c \in Getters :
        /\ Ignored(r)
        /\ siteSchemas[reg[r].schema.name] = NoSchema
        /\ task[c].pc = "gsOK" /\ sites[task[c].sid] = task[c].site
        /\ PassResolved(pass[task[c].waitOn])
        /\ pass[task[c].waitOn].apps[reg[r].schema.name] = NoApp

\* ------------------------------------------------ the order of the reads
\* The rows of the store in the order of their insertion.
RowOf(id) == CHOOSE x \in rows : x.id = id
InInsertionOrder == [i \in 1..Len(inserted) |-> RowOf(inserted[i])]

\* C22: all(conditions) gives exactly the rows whose columns have every
\* given value, all rows without conditions, in the order in which the rows
\* were inserted.
C22_AllInInsertionOrder ==
    last.op = "all" =>
        last.list = IF last.conditions.given
                    THEN Filter(InInsertionOrder, last.conditions)
                    ELSE InInsertionOrder

\* The fold of a reducer from the left over an array.
RECURSIVE FoldLeft(_, _, _)
FoldLeft(reducer, result, array) ==
    IF array = <<>> THEN result
    ELSE FoldLeft(reducer, ReducerJs(reducer, result, Head(array)), Tail(array))
Satisfying(array, predicate) ==
    IF predicate = NoPredicate THEN array
    ELSE SelectSeq(array, LAMBDA record : Js(predicate, record))

\* C23: reduce gives the fold from the left of the reducer, from its initial
\* value, over exactly the cached records that satisfy the conditions, over
\* all of them without conditions, and the initial value when none does.
C23_ReduceFoldsMatching ==
    last.op = "reduce" =>
        /\ last.result = FoldLeft(last.reducer, JsInitialValue(last.reducer),
                                  Satisfying(ObjectValues(records), last.predicate))
        /\ Satisfying(ObjectValues(records), last.predicate) = <<>> =>
              last.result = JsInitialValue(last.reducer)

\* A reduce over two cached records of which the predicate keeps one.
C23_Witness ==
    /\ last.op = "reduce" /\ last.reducer = "ids" /\ last.predicate = "idAboveOne"
    /\ Len(ObjectValues(records)) = 2
    /\ last.result = <<2>>

\* What a read of the eager table gives when it observes every write whose
\* promise has resolved: the answer of a table holding what those writes left.
ReadsObserve(table) ==
    /\ last.op = "all" => last.value = LazyAll(table, last.conditions)
    /\ last.op = "find" => LastOutcome \in LazyFind(table, last.conditions)
    /\ last.op = "findByPrimaryKey" =>
          LastOutcome = LazyFindByPrimaryKey(table, last.primaryKey)
    /\ (last.op = "reduce" /\ last.reducer = "ids" /\ last.predicate = NoPredicate) =>
          {last.result[i] : i \in 1..Len(last.result)} = {x.id : x \in table}

\* C21: under any interleaving of the tasks calling one eager table, a read
\* (all, find, findByPrimaryKey, reduce) issued after the promise of a write
\* has resolved observes the effect of that write in the mirror.
C21_ReadsObserveResolvedWrites ==
    writes.settled.ok => ReadsObserve(writes.table)

\* The same while no write updating the primary key column has been called.
TasksReadResolvedWrites ==
    (writes.settled.ok /\ ~writes.rekeyed) => ReadsObserve(writes.table)

\* A read between the resolution of a write and the resumption of a later
\* write the store has already executed.
TasksReadBehindStore ==
    /\ writes.settled.ok /\ ~writes.rekeyed
    /\ last.op \in Reads
    /\ writes.pending # <<>> /\ Head(writes.pending).st = "stored"
    /\ rows # writes.table

\* ------------------------------------------------------------ deleteSite
DeleteSiteDone(session_, step) ==
    \E i \in 1..Len(session_.del.done) : session_.del.done[i] = step
FolderRemoved(s) == s \in session.folder /\ s \notin session.folder'
RowRemoved(s) == s \in sitesTable /\ s \notin sitesTable'
SiteForgotten(s) == sites[s] # NoSite /\ sites'[s] = NoSite
EventTriggered ==
    DeleteSiteDone(session', "SITE_DELETED") /\ ~DeleteSiteDone(session, "SITE_DELETED")

\* C24 as stated: the folder of a site is removed only when its database is
\* deleted and the site is removed from this.sites and from the sites table.
C24_FolderAfterRowRemoved ==
    [][\A s \in Sites :
          FolderRemoved(s) => (db[s] = DeletedDB /\ sites[s] = NoSite /\ s \notin sitesTable)]_vars

\* C24: deleteSite deletes the site's database first, then deletes the site
\* from this.sites and has deleteRecords on the sites table settle (resolved,
\* or rejected and ignored), only then removes the folder, and triggers
\* SITE_DELETED after all of them.
C24_DeleteSiteInOrder ==
    [][\A s \in Sites :
          /\ SiteForgotten(s) => db'[s] = DeletedDB
          /\ RowRemoved(s) =>
                DeleteSiteDone(session, "deleteDB") /\ DeleteSiteDone(session, "sites")
          /\ FolderRemoved(s) =>
                /\ DeleteSiteDone(session, "deleteDB") /\ DeleteSiteDone(session, "sites")
                /\ DeleteSiteDone(session, "deleteRecords")
                      \/ DeleteSiteDone(session, "deleteRecordsFailed")
          /\ (EventTriggered /\ session.del.sid = s) =>
                /\ s \notin session.folder'
                /\ DeleteSiteDone(session', "deleteDB") /\ DeleteSiteDone(session', "sites")
                /\ DeleteSiteDone(session', "deleteRecords")
                      \/ DeleteSiteDone(session', "deleteRecordsFailed")]_vars

\* deleteSite has resolved after each of its steps.
C24_Witness ==
    /\ session.del.pc = "resolved"
    /\ session.del.done = <<"deleteDB", "sites", "deleteRecords", "deleteFolder", "SITE_DELETED">>
    /\ session.del.sid \notin sitesTable /\ session.del.sid \notin session.folder

\* deleteSite has begun removing the store of site s: site.deleteDB() has
\* been called, and has not rejected.
Removing(s) ==
    /\ session.del.sid = s
    /\ session.del.pc \in {"deleteDB", "deleteRecords", "deleteFolder", "resolved"}
    /\ DeleteSiteDone(session, "deleteDB") \/ session.del.pc = "deleteDB"
\* A getSite(s) call other than deleteSite's own resolves with a site.
GetSiteResolves(s) ==
    \E c \in Getters \ {DelGs} :
        task'[c].sid = s /\ task'[c].pc = "gsOK" /\ task[c].pc # "gsOK"
\* A getSite(s) call starts a migration of the site's database.
GetSiteMigrates(s) ==
    \E c \in Getters : op'[c].sid = s /\ op'[c].st = "base" /\ op[c].st # "base"
\* A getSite(s) call stores the site in this.sites.
GetSiteStores(s) ==
    /\ sites[s] = NoSite /\ sites'[s] # NoSite
    /\ \E c \in Getters : task[c].pc = "makeSite" /\ task'[c].pc = "gsOK"

\* C25: once deleteSite(siteId) has begun removing the site's store, no
\* concurrent or later getSite(siteId) resolves with a site for that id,
\* runs a migration on its store or stores it in this.sites again.
C25_NeverResurrected ==
    [][\A s \in Sites :
          Removing(s) => ~GetSiteResolves(s) /\ ~GetSiteMigrates(s) /\ ~GetSiteStores(s)]_vars

\* The parts of C25 about the migration and about this.sites.
NeverMigratedAgain == [][\A s \in Sites : Removing(s) => ~GetSiteMigrates(s)]_vars
NeverStoredAgain == [][\A s \in Sites : Removing(s) => ~GetSiteStores(s)]_vars
\* The same once deleteSite has resolved with the row removed.
NeverResurrectedOnceRemoved ==
    [][\A s \in Sites :
          (Removing(s) /\ session.del.pc = "resolved" /\ DeleteSiteDone(session, "deleteRecords"))
              => ~GetSiteResolves(s) /\ ~GetSiteMigrates(s) /\ ~GetSiteStores(s)]_vars

\* --------------------------------------------------------- current site
\* login(s) completes: its insertRecord has resolved, for the login of
\* newSite and for the login of loadSite.
LoginCompletes(s) ==
    \/ s \in loginPending /\ s \notin loginPending'
    \/ /\ session.cur # <<>> /\ session'.cur = Tail(session.cur)
       /\ Head(session.cur).kind = "insert" /\ Head(session.cur).sid = s
\* logout() has run its code up to `await Promise.all(promises)`.
LogoutRuns(c) == session.out[c].pc = "dbReady" /\ session'.out[c].pc # "dbReady"
\* logout() completes: its promise resolves.
LogoutCompletes(c) == session.out[c].pc # "resolved" /\ session'.out[c].pc = "resolved"

LogoutLeavesNoCurrentSite ==
    [][\A c \in OutIds : LogoutCompletes(c) => currentSite' = NoSite]_vars
LogoutLeavesNoRow ==
    [][\A c \in OutIds : LogoutCompletes(c) => currentRow' = ""]_vars
LogoutOfCurrentLeavesNoCurrentSite ==
    [][\A c \in OutIds :
          (LogoutCompletes(c) /\ session'.out[c].had) => currentSite' = NoSite]_vars

LoadSiteMigrates(c) ==
    LET g == <<"lgs", c[2], "">>
    IN \/ task[g].pc = "makeSite" \/ task[g].waitOn # NoCaller
       \/ op[g] # NoOp
       \/ pass[g] # NoPass
\* A step of the loadSite call c.
LoadSiteSteps(c) == session'.load[c] # session.load[c]

C36_MirrorKeyedByPrimaryKey ==
    \A k \in SerializedKeys :
        records[k] # NoRecord =>
            serializePrimaryKey(getPrimaryKeyFromRecord(records[k])) = k

\* The same for the mirror as initialize, insert and the deletes leave it.
Keyed(mirror) ==
    \A k \in SerializedKeys :
        mirror[k] # NoRecord => serializePrimaryKey(getPrimaryKeyFromRecord(mirror[k])) = k
MirrorKeyedUnlessUpdated ==
    (last.op \in {"initialize", "insert", "delete", "deleteByPrimaryKey"}
        /\ Keyed(last.before.records)) => Keyed(records)

\* ------------------------------------------------- what newSite has written
\* C33: when newSite has resolved with a site id, the row of the site is in
\* the sites table and, with login, the current site table names the site.
C33_NewSiteResolvedAfterWrites ==
    \A c \in NewIds :
        new[c].pc = "resolved" =>
            /\ new[c].sid \in sitesTable
            /\ new[c].login => currentRow = new[c].sid

\* The same once the inserts newSite left pending have been executed.
NewSiteWritesOnceExecuted ==
    \A c \in NewIds :
        new[c].pc = "resolved" =>
            /\ new[c].sid \notin addPending => new[c].sid \in sitesTable
            /\ (new[c].login /\ new[c].sid \notin loginPending) => currentRow = new[c].sid

\* ------------------------------------------------ one site object per id
\* C32: all getSite(siteId) calls for one id, overlapping ones included,
\* resolve with the same CoreSite object, the one stored in this.sites.
C32_OneSiteObjectPerId ==
    /\ \A c, d \in Getters :
          (task[c].pc = "gsOK" /\ task[d].pc = "gsOK" /\ task[c].sid = task[d].sid)
              => task[c].site = task[d].site
    /\ \A c \in Getters : task[c].pc = "gsOK" => sites[task[c].sid] = task[c].site

\* The same for getSite calls that do not overlap: the later call starts
\* when the site is in this.sites.
OneSiteObjectOnceStored ==
    [][\A c \in Getters :
          (task[c].pc = "dbReady" /\ task'[c].pc = "gsOK") =>
              task'[c].site = IF currentSite # NoSite /\ currentSite.id = task[c].sid
                              THEN currentSite ELSE sites[task[c].sid]]_vars

\* ------------------------------------- the registry during a registration
\* registerSiteSchema r was called with a current site and has not settled.
Registering(r) == reg[r].pc \in {"getIds", "waitAll"}
\* No other registerSiteSchema call was given this version of the schema of r.
Fresh(r) ==
    \A q \in 1..MaxReg :
        q # r => (reg[q].schema.name # reg[r].schema.name
                    \/ reg[q].schema.version # reg[r].schema.version)
\* The step in which registerSiteSchema r, called with a current site, settles.
Settles(r) == Registering(r) /\ reg'[r].pc \in {"resolved", "rejected"}
\* The pass of c has applied the schema to site s to the end.
AppliedTo(c, s, schema) ==
    /\ pass[c].sid = s
    /\ pass[c].apps[schema.name].st = "done"
    /\ pass[c].apps[schema.name].sch.version = schema.version
\* The schema of r was applied to a site by a migration and by r itself.
AppliedTwice(r) ==
    IF reg[r].schema = NoSchema THEN FALSE
    ELSE \E s \in Sites, c \in Migrators :
            AppliedTo(c, s, reg[r].schema) /\ AppliedTo(<<"reg", r, s>>, s, reg[r].schema)

\* C31: registerSiteSchema called with a current site adds the schema to the
\* registry only when the attempts to apply it have settled, also when one
\* has failed, so that a site loaded by getSite during the registration does
\* not get the same version of the schema applied twice.
C31_RegistryAfterAttempts ==
    /\ [](\A r \in 1..MaxReg :
             /\ (Registering(r) /\ Fresh(r)) => siteSchemas[reg[r].schema.name] # reg[r].schema
             /\ Fresh(r) => ~AppliedTwice(r))
    /\ [][\A r \in 1..MaxReg :
             Settles(r) =>
                /\ siteSchemas'[reg[r].schema.name] = reg[r].schema
                /\ \A s \in reg[r].siteIds : SubSettled(r, s)]_vars

\* The parts of C31.
RegistryWithoutSchemaInProgress ==
    \A r \in 1..MaxReg :
        (Registering(r) /\ Fresh(r)) => siteSchemas[reg[r].schema.name] # reg[r].schema
RegistryHasSchemaOnceSettled ==
    [][\A r \in 1..MaxReg : Settles(r) => siteSchemas'[reg[r].schema.name] = reg[r].schema]_vars
RegistryAfterEveryAttempt ==
    [][\A r \in 1..MaxReg : Settles(r) => \A s \in reg[r].siteIds : SubSettled(r, s)]_vars
NeverAppliedTwice == \A r \in 1..MaxReg : Fresh(r) => ~AppliedTwice(r)

Restoring(c) == session.restore[c] \in {"getRecord", "loadSite", "resolved"}
\* C34: restoreSession restores the session at most once: of all the calls,
\* overlapping ones included, one at most passes the test of the flag, reads
\* the current site and loads it; the others are rejected and load no site.
C34_RestoredAtMostOnce ==
    /\ \A c, d \in RestoreIds : (Restoring(c) /\ Restoring(d)) => c = d
    /\ \A c \in RestoreIds :
          session.restore[c] = "rejected" => session.load[<<"load", c[2], "rs">>].pc = "idle"

\* Part of C34: a call made once the flag is set is rejected and loads no site.
RejectedOnceRestored ==
    /\ [](\A c \in RestoreIds :
            session.restore[c] = "rejected" => session.load[<<"load", c[2], "rs">>].pc = "idle")
    /\ [][\A c \in RestoreIds :
            (session.sessionRestored /\ session.restore[c] = "idle"
                /\ session.restore'[c] # "idle") => session.restore'[c] = "rejected"]_vars
RejectedOnceRestoredSeen == \E c \in RestoreIds : session.restore[c] = "rejected"
\* Two calls that overlapped while this.dbReady was pending both load the site.
BothRestoreAndLoad ==
    ~(\A c \in RestoreLoadIds : session.load[c].pc = "resolved")


DeleteSiteResolves == session.del.pc # "resolved" /\ session'.del.pc = "resolved"
DeletedWasCurrent == session.out[DelOut].pc # "idle"
\* C35: when deleteSite(siteId) resolves for the site that was current, there
\* is no current site in memory, the site is in neither this.sites nor the
\* sites table, and the row of CURRENT_SITE_TABLE is removed.
C35_CurrentSiteDeleted ==
    [][(DeleteSiteResolves /\ DeletedWasCurrent) =>
          /\ currentSite' = NoSite
          /\ sites'[session.del.sid] = NoSite
          /\ session.del.sid \notin sitesTable'
          /\ currentRow' = ""]_vars
\* The parts of C35, each when deleteSite resolves for the site that was current.
DeletedNotCurrentInMemory ==
    [][(DeleteSiteResolves /\ DeletedWasCurrent) =>
          (currentSite' = NoSite \/ currentSite'.id # session.del.sid)]_vars
DeletedNotInSites ==
    [][(DeleteSiteResolves /\ DeletedWasCurrent) => sites'[session.del.sid] = NoSite]_vars
DeletedNotInSitesTable ==
    [][(DeleteSiteResolves /\ DeletedWasCurrent) => session.del.sid \notin sitesTable']_vars
DeletedNoCurrentRow ==
    [][(DeleteSiteResolves /\ DeletedWasCurrent) => currentRow' # session.del.sid]_vars

IdsOfUrl(u) ==
    LET Stored(s) == s \in u.stored
    IN MatchingIds(SelectSeq(SiteOrder, Stored), u.url, u.username)
ReadSitesTable(u) == u.pc = "resolved" /\ IsHttp(u.url) /\ u.stored # {}
\* C37: for an http(s) URL, getSiteIdsFromUrl resolves with the ids of all
\* the stored sites that contain the URL, of the given user when a username
\* is passed, whether or not the sites were in this.sites.
C37_IdsOfAllStoredSites == ReadSitesTable(session.url) => session.url.ids = IdsOfUrl(session.url)

\* Part of C37: the ids are those of the matching sites when every stored
\* site was in this.sites; otherwise no id is returned.
IdsWhenAllLoaded ==
    ReadSitesTable(session.url) =>
        session.url.ids = IF session.url.stored \subseteq session.url.loaded
                          THEN IdsOfUrl(session.url) ELSE <<>>
IdsWhenAllLoadedSeen ==
    /\ ReadSitesTable(session.url)
    /\ session.url.stored = Sites
    /\ session.url.ids = <<"s1", "s2">>

IsPresented(t) == userTour[t].present # "none" /\ userTour[t].dismiss = "none"
IsPrefix(s, q) == Len(s) <= Len(q) /\ \A i \in 1..Len(s) : s[i] = q[i]
\* C38: CoreUserToursService presents one user tour at a time.  The tour
\* presented and not dismissed is the head of the queue; a tour queued behind
\* another one waits, not presented, until dismiss() has removed every tour
\* ahead of it; the tours are presented in the order they were queued; and
\* dismiss() with an empty queue changes nothing.
C38_OneTourAtATime ==
    /\ [](/\ \A t, u \in Tours : (IsPresented(t) /\ IsPresented(u)) => t = u
          /\ \A t \in Tours : IsPresented(t) <=> (tours # <<>> /\ t = Head(tours))
          /\ \A i \in 2..Len(tours) :
                userTour[tours[i]].show = "queued" /\ userTour[tours[i]].present = "none"
          /\ IsPrefix(shown.presented, shown.queued))
    /\ [][\A d \in 1..MaxDismiss :
            (tours = <<>> /\ dismissals[d].pc = "idle" /\ dismissals'[d].pc # "idle")
                => (dismissals'[d] = [NoDismiss EXCEPT !.pc = "resolved"]
                        /\ UNCHANGED <<tours, tourReadyCallbacks, userTour, shown>>)]_vars
\* Three tours were queued, the second and the third behind the first, and
\* each was presented after dismiss() had removed the ones ahead; a dismiss()
\* found the queue empty.
C38_Witness ==
    /\ Len(shown.queued) = MaxTours
    /\ shown.presented = shown.queued
    /\ \A t \in Tours : t # shown.queued[1] => t \in tourReadyCallbacks
    /\ \E d \in 1..MaxDismiss : dismissals[d] = [NoDismiss EXCEPT !.pc = "resolved"]

====
